---- MODULE Spec2Model ----
(***************************************************************************)
(* Model of auproximity's PublicLobbyBackend (src/backends/                *)
(* PublicLobbyBackend.ts): the connection supervisor (initialize, doJoin,  *)
(* initialSpawn, joinGame, destroy), the auth-token retrier                *)
(* (tryGetAuthToken) and the protocol-notification handlers.               *)
(*                                                                         *)
(* The backend runs on one JavaScript event loop.  Every `await` is a      *)
(* suspension point; an action of this model is the code that runs from    *)
(* one resumption to the next suspension.  pc[p] names the await at which  *)
(* async call chain p is suspended.                                        *)
(*                                                                         *)
(*   Spec        the supervisor: initialize / doJoin / game.end /          *)
(*               player.sethost / destroy                                  *)
(*   SpecAuth    tryGetAuthToken over every sequence of getAuthToken       *)
(*               outcomes                                                  *)
(*   SpecEvents  the notification handlers of a ready backend              *)
(***************************************************************************)
EXTENDS Integers, Sequences, FiniteSets, TLC

\* ---------------------------------------------------------------- bounds
\* largest number of endpoints a region resolves to
MaxServers == 2
\* largest number of Redirect responses answered to one joinGame call
MaxRedirects == 1
\* largest number of game.end / player.sethost notifications delivered
MaxNotifs == 2
\* largest number of notifications delivered to the translator (SpecEvents)
MaxSyncs == 3
\* auth tokens are 0..MaxToken
MaxToken == 1
\* map ids are 0..MaxMap
MaxMap == 1
\* crewmateVision values are 1..MaxVision
MaxVision == 2
\* keys of the entities a snapshot or a session can hold
MaxEntities == 2
\* positions of a singleton list
MaxList == 2
\* player ids, and names, are 1..MaxPlayers
MaxPlayers == 2
\* largest number of players a player.setimpostors notification names
MaxImpostors == 2
\* vent ids are 0..MaxVent
MaxVent == 1
\* colour ids are 0..MaxColor
MaxColor == 1
\* regions of the matchmaker table; region r has r hostnames
MaxRegions == 2
\* resolveMMDNS calls, which may overlap
MaxResolves == 2
\* addresses one hostname lookup returns
MaxIps == 1
\* socket events the consumer receives
MaxSocketEvents == 4
\* captures of the entity caches
MaxCaptures == 1
\* notifications and spawns delivered to the meeting handlers
MaxMeetingEvents == 4
\* components that spawn while awaitSpawns listens
MaxSpawns == 3
\* identifications sent to endpoints
MaxIdentifies == 6
\* events the game-state handlers emit
MaxGameEvents == 5
\* Redirects followed by one joinGame call, counted up to this number
MaxFollowed == 3
\* client operations of a warmup join, its timeout and the next attempt
MaxClientOps == 8
\* remote clients in the consumer's store
MaxStoreClients == 2
\* socket events about players that the consumer's store receives
MaxVentEvents == 4

\* ------------------------------------------------------ program constants
\* doJoin(max_attempts = 5, attempt = 0)
max_attempts == 5
\* tryGetAuthToken: const remaining = 5 - cur_attempt
AuthTries == 5
\* constructor: settings = { map: MapID.TheSkeld, crewmateVision: 1 }
TheSkeld == 0
DefaultVision == 1

Tokens == 0..MaxToken
Maps == 0..MaxMap
Visions == 1..MaxVision

\* enum ConnectionErrorCode
ConnectionErrorCode ==
    {"None", "NoClient", "FailedToConnect", "TimedOut", "GameNotFound", "FailedToJoin"}

\* the async call chains: initialize(), the game.end handler, the
\* player.sethost handler, and two external callers of destroy()
Procs == {"init", "end", "host", "ext1", "ext2"}
Joiners == {"init", "end", "host"}
Destroyers == {"ext1", "ext2"}

VARIABLES
    pc,          \* pc[p]: the await at which chain p is suspended
    attempt,     \* attempt[p]: doJoin's attempt parameter in chain p
    ret,         \* ret[p]: source line of the return statement doJoin took (0: none yet)
    err,         \* err[p]: the ConnectionErrorCode initialSpawn returned
    after,       \* after[p]: where chain p continues once destroy() resolves
    redirects,   \* redirects[p]: Redirect responses followed by the current joinGame
    destroyed,   \* this.destroyed
    client,      \* this.client !== undefined
    connected,   \* this.client.socket: the client holds a connection
    identified,  \* this.client.identified
    joined,      \* this.client.code: the client is in the room
    master,      \* this.master: the region's endpoint sequence
    server,      \* this.server: index into master (0-based)
    authToken,   \* this.authToken
    cached,      \* players_cache, components_cache and global_cache are set
    settings,    \* this.settings: the GameSettingsMirror
    handlers,    \* the notification handlers of initialize are subscribed
    connLog,     \* server index used by each warmup client.connect
    outLog,      \* the outcome of each finished warmup attempt
    firstAt,     \* the await at which the first warmup attempt was decided
    notifs,      \* notifications delivered so far
    got,         \* the last step: which chain resumed, from which await, with which outcome
    emitted,     \* the last step: the domain events it emitted, in order
    issued,      \* the last step: the client operations it called, in order
    count,       \* the Error and SettingsUpdate events emitted so far, counted
    events,      \* SpecEvents: the domain events emitted so far, in order
    tok,         \* SpecAuth: one tryGetAuthToken call and its result
    re,          \* SpecReattach: the snapshot and the session it is put into
    dns,         \* SpecResolve: PublicLobbyBackend.OfficialServers and the resolveMMDNS calls
    store,       \* SpecConsumer: the consumer's Vuex store and its pending teardowns
    jg,          \* SpecJoinGame: one joinGame call, await by await, and the client it drives
    cap,         \* SpecCapture: the client's entity registries and the three caches
    meet,        \* SpecMeeting: the player.meeting handlers waiting for a spawn
    aw,          \* SpecSpawns: one awaitSpawns call and the session it listens to
    idt,         \* SpecIdentify: the token held and the endpoints identified to
    gs,          \* SpecGameState: the game-state handlers and their pending delays
    ab,          \* SpecAbandon: a warmup join raced with its timeout, and the next attempt
    vt,          \* SpecVent: the consumer store's players and their vents
    rd           \* SpecRedirects: one joinGame call and the Redirects it follows

vars == <<pc, attempt, ret, err, after, redirects, destroyed, client, connected,
          identified, joined, master, server, authToken, cached, settings,
          handlers, connLog, outLog, firstAt, notifs, got, emitted, issued,
          count, events, tok, re, dns, store, jg, cap, meet, aw, idt,
          gs, ab, vt, rd>>

\* the state outside the backend instance
side == <<dns, store, jg, cap, meet, aw, idt, gs, ab, vt, rd>>
\* the state of the backend instance and what its last step did
instance == <<pc, attempt, ret, err, after, redirects, destroyed, client,
              connected, identified, joined, master, server, authToken, cached,
              settings, handlers, connLog, outLog, firstAt, notifs, got,
              emitted, issued, count, events, tok, re>>

\* ------------------------------------------------------------ domain events
ErrorEvent(fatal) == [type |-> "Error", fatal |-> fatal]
SettingsUpdateEvent(s) == [type |-> "SettingsUpdate", map |-> s.map, crewmateVision |-> s.crewmateVision]
HostChangeEvent(name) == [type |-> "HostChange", name |-> name]
GameStateEvent(st) == [type |-> "GameStateChange", state |-> st]
PlayerColorEvent(name, color) == [type |-> "PlayerColor", name |-> name, color |-> color]
PlayerPoseEvent(name) == [type |-> "PlayerPose", name |-> name]
PlayerFlagsEvent(name, flag, value) == [type |-> "PlayerFlags", name |-> name, flag |-> flag, value |-> value]
PlayerVentEvent(name, ventid) == [type |-> "PlayerVent", name |-> name, ventid |-> ventid]

IsFatal(e) == e.type = "Error" /\ e.fatal
IsNonFatal(e) == e.type = "Error" /\ ~e.fatal
IsSettingsUpdate(e) == e.type = "SettingsUpdate"

NumFatal(evs) == Cardinality({i \in 1..Len(evs) : IsFatal(evs[i])})
NumNonFatal(evs) == Cardinality({i \in 1..Len(evs) : IsNonFatal(evs[i])})
NumSettingsUpdate(evs) == Cardinality({i \in 1..Len(evs) : IsSettingsUpdate(evs[i])})

\* the greatest of a non-empty set of numbers
Max(S) == CHOOSE x \in S : \A y \in S : y <= x

\* emitError(message, fatal) after the events evs of the same step
emitError(evs, fatal) == Append(evs, ErrorEvent(fatal))

\* the step emits the events evs
Emit(evs) ==
    /\ emitted' = evs
    /\ count' = [fatal    |-> count.fatal + NumFatal(evs),
                 nonfatal |-> count.nonfatal + NumNonFatal(evs),
                 settings |-> count.settings + NumSettingsUpdate(evs)]

\* the step resumed chain p from await `at` with outcome o
Got(p, at, o) == got' = [proc |-> p, at |-> at, outcome |-> o]

\* ------------------------------------------------------- tryGetAuthToken
\* One getAuthToken call either resolves with the token the helper printed
\* (TOKEN:(\d+):TOKEN, parseInt) or rejects (process error, 2 s timeout).
AuthOutcomes ==
    {[ok |-> TRUE, token |-> t] : t \in Tokens} \cup {[ok |-> FALSE, token |-> 0]}

\* tryGetAuthToken(ip, cur_attempt) against the outcomes outs[1], outs[2], ...
\* of the successive getAuthToken calls: the token returned and the number
\* of getAuthToken calls made.
RECURSIVE tryGetAuthToken(_, _)
RECURSIVE tryGetAuthToken_mut(_, _)
\* variant: the retry budget is one call short
tryGetAuthToken_mut(outs, cur_attempt) ==
    LET out == outs[cur_attempt + 1] IN
    IF out.ok
    THEN [token |-> out.token, calls |-> cur_attempt + 1]
    ELSE LET remaining == (AuthTries - 1) - (cur_attempt + 1) IN
         IF remaining # 0
         THEN tryGetAuthToken_mut(outs, cur_attempt + 1)
         ELSE [token |-> 0, calls |-> cur_attempt + 1]

tryGetAuthToken(outs, cur_attempt) ==
    LET out == outs[cur_attempt + 1] IN
    IF out.ok
    THEN [token |-> out.token, calls |-> cur_attempt + 1]
    ELSE LET remaining == AuthTries - (cur_attempt + 1) IN
         IF remaining # 0
         THEN tryGetAuthToken(outs, cur_attempt + 1)
         ELSE [token |-> 0, calls |-> cur_attempt + 1]

AuthRuns == [1..AuthTries -> AuthOutcomes]

\* the tokens `await this.tryGetAuthToken(...)` can resolve with
AuthResults == {tryGetAuthToken(outs, 0).token : outs \in AuthRuns}

\* ---------------------------------------------------------------- Init
NoTok == [state |-> "idle", outs |-> <<>>, token |-> 0, calls |-> 0]
NoStep == [proc |-> "none", at |-> "none", outcome |-> "none"]
NoCount == [fatal |-> 0, nonfatal |-> 0, settings |-> 0]
NoReattach == [phase |-> "idle"]
\* the consumer's store as created, lines 13-53 of the store
NoBackend == [gameCode |-> "", backendType |-> "NoOp"]
NoSession == [uuid |-> "", joinedRoom |-> FALSE, name |-> "", backendModel |-> NoBackend,
              host |-> "", pending |-> 0, delivered |-> 0,
              event |-> [type |-> "none", fatal |-> FALSE]]
\* no client yet, and no cache assigned
Undefined == [undefined |-> TRUE]
NoCapture == [client |-> FALSE, clientid |-> 0, objects |-> <<>>, netobjects |-> <<>>,
              components |-> <<>>, players_cache |-> Undefined,
              components_cache |-> Undefined, global_cache |-> Undefined,
              captures |-> 0, last |-> "none"]
\* joinGame has not been called
NoJoinGame == [at |-> "idle"]
\* the handlers are subscribed on a client; no meeting has been called
NoMeeting == [client |-> TRUE, waiting |-> 0, log |-> <<>>, out |-> <<>>]
\* awaitSpawns has not been called
NoAwait == [at |-> "idle", client |-> TRUE, players |-> {}, listener |-> FALSE,
            gamedataSpawned |-> FALSE, playersSpawned |-> <<>>,
            resolved |-> <<>>, log |-> <<>>]
\* the handlers are subscribed in the lobby; no delay is pending
NoGameState == [started |-> FALSE, pending |-> 0, last |-> "none", out |-> <<>>]
\* initialSpawn has not called joinGame
NoAbandon == [at |-> "idle", calls |-> [first |-> "none", second |-> "none"],
              abandoned |-> FALSE, redirects |-> 0, acts |-> <<>>]
\* joinGame has not been called
NoRedirect == [at |-> "idle", code |-> 0, doSpawn |-> FALSE, endpoint |-> 0,
               target |-> 0, authToken |-> 0, followed |-> 0]
\* a JavaScript number, as the value of a field that may also be undefined
Number(n) == [undefined |-> FALSE, number |-> n]
\* the store as created, lines 27-39: me without a uuid and outside any
\* vent, no remote client
NoVent == [me |-> [uuid |-> "", ventid |-> Number(-1)], clients |-> <<>>,
           delivered |-> 0, event |-> [type |-> "none", uuid |-> "", ventid |-> -1]]
\* initialize has not acquired a token
NoIdentify == [at |-> "idle", master |-> <<>>, server |-> 0, attempt |-> 0,
               tokenFor |-> 0, log |-> <<>>]
\* regions are 1..MaxRegions; no region resolved, no call made
NoCall == [state |-> "idle"]
NoResolve == [cache |-> [r \in 1..MaxRegions |-> <<>>],
              calls |-> [c \in 1..MaxResolves |-> NoCall]]

Init ==
    /\ pc = [p \in Procs |-> "idle"]
    /\ attempt = [p \in Procs |-> 0]
    /\ ret = [p \in Procs |-> 0]
    /\ err = [p \in Procs |-> "None"]
    /\ after = [p \in Procs |-> "done"]
    /\ redirects = [p \in Procs |-> 0]
    /\ destroyed = FALSE
    /\ client = FALSE
    /\ connected = FALSE
    /\ identified = FALSE
    /\ joined = FALSE
    /\ master = <<>>
    /\ server = 0
    /\ authToken = 0
    /\ cached = FALSE
    /\ settings = [map |-> TheSkeld, crewmateVision |-> DefaultVision]
    /\ handlers = FALSE
    /\ connLog = <<>>
    /\ outLog = <<>>
    /\ firstAt = "none"
    /\ notifs = 0
    /\ got = NoStep
    /\ emitted = <<>>
    /\ issued = <<>>
    /\ count = NoCount
    /\ events = <<>>
    /\ tok = NoTok
    /\ re = NoReattach
    /\ dns = NoResolve
    /\ store = NoSession
    /\ jg = NoJoinGame
    /\ cap = NoCapture
    /\ meet = NoMeeting
    /\ aw = NoAwait
    /\ idt = NoIdentify
    /\ gs = NoGameState
    /\ ab = NoAbandon
    /\ vt = NoVent
    /\ rd = NoRedirect

\* ------------------------------------------------- the protocol client
\* client.disconnect() has completed: the connection and its session state
\* are gone
Disconnected ==
    /\ connected' = FALSE
    /\ identified' = FALSE
    /\ joined' = FALSE

\* client.connect(ip, ...) has completed on a fresh connection
Connected ==
    /\ connected' = client
    /\ identified' = FALSE
    /\ joined' = FALSE

\* variant: the endpoint index is not advanced
NextServer_mut == server

\* doJoin, lines 240-241 and 269-270: this.server++ modulo master.length
NextServer == (server + 1) % Len(master)

\* ------------------------------------------------------------- destroy()
\* where a chain is once its destroy() call has resolved: the caller of an
\* awaited destroy() resumes one tick later, an external caller is done
Destroyed(p) == IF p \in Destroyers THEN "done" ELSE "destroy_done"

\* destroy(), lines 945-953: up to `await this.client.disconnect()`, after
\* the client operations ops of the same step; a call that finds the flag
\* set returns at once.  sock is this.client.socket at the call.
DestroyCall(p, cont, ops, sock) ==
    /\ after' = [after EXCEPT ![p] = cont]
    /\ IF destroyed
       THEN /\ pc' = [pc EXCEPT ![p] = Destroyed(p)]
            /\ issued' = ops
            /\ UNCHANGED destroyed
       ELSE IF client /\ sock
            THEN /\ pc' = [pc EXCEPT ![p] = "destroy_disc"]
                 /\ issued' = Append(ops, "disconnect")
                 /\ UNCHANGED destroyed
            ELSE /\ pc' = [pc EXCEPT ![p] = Destroyed(p)]
                 /\ issued' = ops
                 /\ destroyed' = TRUE

\* destroy(), lines 951-956: the disconnect has resolved
DestroyResume(p) ==
    /\ pc[p] = "destroy_disc"
    /\ Got(p, "destroy_disc", "ok")
    /\ pc' = [pc EXCEPT ![p] = Destroyed(p)]
    /\ client' = FALSE
    /\ Disconnected
    /\ destroyed' = TRUE
    /\ Emit(<<>>)
    /\ issued' = <<>>
    /\ UNCHANGED <<attempt, ret, err, after, redirects, master, server, authToken,
                   cached, settings, handlers, connLog, outLog, firstAt, notifs, events, tok, re, side>>

\* an external owner of the backend calls destroy() on the backend it has
\* initialized; the two callers are interchangeable, so ext1 calls first
ExtDestroy(p) ==
    /\ p \in Destroyers
    /\ pc[p] = "idle"
    /\ pc["init"] # "idle"
    /\ p = "ext2" => pc["ext1"] # "idle"
    /\ Got(p, "call", "destroy")
    /\ DestroyCall(p, "done", <<>>, connected)
    /\ Emit(<<>>)
    /\ UNCHANGED <<attempt, ret, err, redirects, client, connected, identified,
                   joined, master, server, authToken, cached, settings, handlers,
                   connLog, outLog, firstAt, notifs, events, tok, re, side>>

\* -------------------------------------------------------------- doJoin()
\* a return statement of doJoin, named by its source line
Return(p, line, evs, ops) ==
    /\ pc' = [pc EXCEPT ![p] = "dj_return"]
    /\ ret' = [ret EXCEPT ![p] = line]
    /\ Emit(evs)
    /\ issued' = ops
    /\ UNCHANGED <<client, connLog>>

\* doJoin(max_attempts, att), lines 205-220 and 256-265, and initialSpawn,
\* lines 836-845: the code from the call to the first await, which is the
\* client.connect of the warmup (no caches yet) or of the rejoin.  srv is
\* this.server, evs and ops what the step has emitted and called before.
\* With no endpoint, this.master[this.server] is undefined and reading its
\* first element (lines 837 and 259) throws out of doJoin.
DoJoinEntry(p, att, srv, evs, ops) ==
    /\ attempt' = [attempt EXCEPT ![p] = att]
    /\ IF destroyed
       THEN Return(p, 207, evs, ops)
       ELSE IF att >= max_attempts
       THEN Return(p, 212, emitError(evs, TRUE), ops)
       ELSE IF master = <<>>
       THEN /\ client' = TRUE
            /\ pc' = [pc EXCEPT ![p] = "thrown"]
            /\ Emit(evs)
            /\ issued' = ops
            /\ UNCHANGED <<ret, connLog>>
       ELSE /\ client' = TRUE
            /\ ret' = [ret EXCEPT ![p] = 0]
            /\ Emit(evs)
            /\ issued' = Append(ops, "connect")
            /\ IF ~cached
               THEN /\ pc' = [pc EXCEPT ![p] = "is_connect"]
                    /\ connLog' = Append(connLog, srv)
               ELSE /\ pc' = [pc EXCEPT ![p] = "rj_connect"]
                    /\ connLog' = connLog

\* ---------------------------------------------------------- initialize()
\* initialize(), lines 431-443: up to `await this.resolveMMDNS(...)`
Initialize ==
    /\ pc["init"] = "idle"
    /\ destroyed' = FALSE
    /\ issued' = <<>>
    /\ \E regionKnown \in BOOLEAN :
          /\ Got("init", "call", IF regionKnown THEN "region" ELSE "noregion")
          /\ IF regionKnown
             THEN /\ pc' = [pc EXCEPT !["init"] = "in_resolve"]
                  /\ Emit(<<>>)
             ELSE /\ pc' = [pc EXCEPT !["init"] = "done"]
                  /\ Emit(emitError(<<>>, TRUE))
    /\ UNCHANGED <<attempt, ret, err, after, redirects, client, connected,
                   identified, joined, master, server, authToken, cached,
                   settings, handlers, connLog, outLog, firstAt, notifs, events, tok, re, side>>

\* variant: the failed lookup is reported, but initialize goes on
InitResolved_mut ==
    /\ pc["init"] = "in_resolve"
    /\ \/ /\ pc' = [pc EXCEPT !["init"] = "in_token"]
          /\ Got("init", "in_resolve", "throw")
          /\ Emit(emitError(<<>>, TRUE))
          /\ issued' = <<"token">>
          /\ UNCHANGED <<master, server>>
       \/ \E n \in 0..MaxServers : \E r \in 0..Max({0, n - 1}) :
             /\ master' = [i \in 1..n |-> i]
             /\ server' = r
             /\ pc' = [pc EXCEPT !["init"] = "in_token"]
             /\ Got("init", "in_resolve", "ok")
             /\ Emit(<<>>)
             /\ issued' = <<"token">>
    /\ UNCHANGED <<attempt, ret, err, after, redirects, destroyed, client,
                   connected, identified, joined, authToken, cached, settings,
                   handlers, connLog, outLog, firstAt, notifs, events, tok, re, side>>

\* initialize(), lines 443-458: the region lookup has settled; on success
\* pick a random endpoint (index 0 when there is none) and ask for its
\* token
InitResolved ==
    /\ pc["init"] = "in_resolve"
    /\ \/ /\ pc' = [pc EXCEPT !["init"] = "done"]
          /\ Got("init", "in_resolve", "throw")
          /\ Emit(emitError(<<>>, TRUE))
          /\ issued' = <<>>
          /\ UNCHANGED <<master, server>>
       \/ \E n \in 0..MaxServers : \E r \in 0..Max({0, n - 1}) :
             /\ master' = [i \in 1..n |-> i]
             /\ server' = r
             /\ pc' = [pc EXCEPT !["init"] = "in_token"]
             /\ Got("init", "in_resolve", "ok")
             /\ Emit(<<>>)
             /\ issued' = <<"token">>
    /\ UNCHANGED <<attempt, ret, err, after, redirects, destroyed, client,
                   connected, identified, joined, authToken, cached, settings,
                   handlers, connLog, outLog, firstAt, notifs, events, tok, re, side>>

\* initialize(), lines 458-469: the token is there; call doJoin().  For
\* no endpoint every getAuthToken call rejects (line 382 reads server[0])
\* and tryGetAuthToken falls back to 0.
InitToken ==
    /\ pc["init"] = "in_token"
    /\ \E t \in AuthResults :
          /\ master = <<>> => t = 0
          /\ authToken' = t
    /\ Got("init", "in_token", "ok")
    /\ DoJoinEntry("init", 0, server, <<>>, <<>>)
    /\ UNCHANGED <<err, after, redirects, destroyed, connected, identified,
                   joined, master, server, cached, settings, handlers, outLog, firstAt,
                   notifs, events, tok, re, side>>

\* ------------------------------------------------------- initialSpawn()
\* a return statement of initialSpawn: doJoin resumes with the outcome
FinishSpawn(p, e, evs, ops) ==
    /\ pc' = [pc EXCEPT ![p] = "dj_spawned"]
    /\ err' = [err EXCEPT ![p] = e]
    /\ outLog' = Append(outLog, e)
    /\ firstAt' = IF outLog = <<>> THEN pc[p] ELSE firstAt
    /\ Emit(evs)
    /\ issued' = ops

\* an exception leaves doJoin (a TypeError on a client that destroy() has
\* meanwhile set to undefined, outside every try block)
Throw(p) ==
    /\ pc' = [pc EXCEPT ![p] = "thrown"]
    /\ Emit(<<>>)
    /\ issued' = <<>>

\* initialSpawn, lines 853-857: the catch around connect and identify
\* reports the failure
ConnectFailed(p) ==
    FinishSpawn(p, "FailedToConnect", emitError(<<>>, TRUE), <<>>)

\* initialSpawn, lines 845-848 and 853-857: the connect has settled; on
\* success call identify raced against a 2 s timer
IsConnect(p) ==
    /\ pc[p] = "is_connect"
    /\ \E o \in {"ok", "throw"} :
          /\ Got(p, "is_connect", o)
          /\ IF o = "ok"
             THEN /\ Connected
                  /\ IF ~client
                     THEN FinishSpawn(p, "NoClient", <<>>, <<>>)
                     ELSE /\ pc' = [pc EXCEPT ![p] = "is_identify"]
                          /\ Emit(<<>>)
                          /\ issued' = <<"identify">>
                          /\ UNCHANGED <<err, outLog, firstAt>>
             ELSE /\ ConnectFailed(p)
                  /\ UNCHANGED <<connected, identified, joined>>
    /\ UNCHANGED <<attempt, ret, after, redirects, destroyed, client, master,
                   server, authToken, cached, settings, handlers, connLog,
                   notifs, events, tok, re, side>>

\* initialSpawn, lines 848-866, and joinGame, lines 136-170: identify or
\* its timer has settled; when identified, send the join request and wait
\* for the answer, raced against a 5 s timer.  isFinal is
\* `attempt >= max_attempts`, which doJoin has just found false.
IsIdentify(p) ==
    /\ pc[p] = "is_identify"
    /\ \E o \in {"ok", "timeout", "throw"} :
          /\ Got(p, "is_identify", o)
          /\ IF ~client \/ o = "throw"
             THEN /\ ConnectFailed(p)
                  /\ UNCHANGED <<identified, redirects>>
             ELSE IF o = "timeout"
             THEN /\ FinishSpawn(p, "TimedOut", <<>>, <<>>)
                  /\ UNCHANGED <<identified, redirects>>
             ELSE /\ identified' = TRUE
                  /\ redirects' = [redirects EXCEPT ![p] = 0]
                  /\ pc' = [pc EXCEPT ![p] = "is_join"]
                  /\ Emit(<<>>)
                  /\ issued' = <<"join">>
                  /\ UNCHANGED <<err, outLog, firstAt>>
    /\ UNCHANGED <<attempt, ret, after, destroyed, client, connected, joined,
                   master, server, authToken, cached, settings, handlers,
                   connLog, notifs, events, tok, re, side>>

\* joinGame, lines 190-195 and 145-170: a Redirect answer.  Disconnect, get
\* a token for the new endpoint, connect to it (with the username, so the
\* connect identifies) and send the join request again.  okConnect is
\* whether that connect succeeds; on failure joinGame rejects.
Redirect(p, okConnect) ==
    /\ redirects[p] < MaxRedirects
    /\ redirects' = [redirects EXCEPT ![p] = @ + 1]
    /\ \E t \in AuthResults : authToken' = t
    /\ IF okConnect
       THEN /\ connected' = TRUE
            /\ identified' = TRUE
            /\ joined' = FALSE
       ELSE Disconnected

\* the client operations joinGame calls on a Redirect answer
RedirectOps(okConnect) ==
    IF okConnect THEN <<"disconnect", "token", "connect", "join">>
                 ELSE <<"disconnect", "token", "connect">>

\* initialSpawn, lines 866-890, and joinGame, lines 170-203: the join
\* answer or the 5 s timer has settled; when joined, spawn and wait for the
\* spawns and the settings, raced against a 5 s timer
IsJoin(p) ==
    /\ pc[p] = "is_join"
    /\ \E o \in {"timeout", "notfound", "error", "redirect", "redirectfail", "joined"} :
          /\ Got(p, "is_join", o)
          /\ IF o = "timeout"
             THEN /\ FinishSpawn(p, "TimedOut", <<>>, <<>>)
                  /\ UNCHANGED <<connected, identified, joined, redirects, authToken>>
             ELSE IF ~client \/ o = "error"
             THEN /\ FinishSpawn(p, "FailedToJoin", <<>>, <<>>)
                  /\ UNCHANGED <<connected, identified, joined, redirects, authToken>>
             ELSE IF o = "notfound"
             THEN /\ FinishSpawn(p, "GameNotFound", <<>>, <<>>)
                  /\ UNCHANGED <<connected, identified, joined, redirects, authToken>>
             ELSE IF o = "redirect"
             THEN /\ Redirect(p, TRUE)
                  /\ Emit(<<>>)
                  /\ issued' = RedirectOps(TRUE)
                  /\ UNCHANGED <<pc, err, outLog, firstAt>>
             ELSE IF o = "redirectfail"
             THEN /\ Redirect(p, FALSE)
                  /\ FinishSpawn(p, "FailedToJoin", <<>>, RedirectOps(FALSE))
             ELSE /\ joined' = TRUE
                  /\ pc' = [pc EXCEPT ![p] = "is_spawns"]
                  /\ Emit(<<>>)
                  /\ issued' = <<"spawn">>
                  /\ UNCHANGED <<connected, identified, redirects, authToken,
                                 err, outLog, firstAt>>
    /\ UNCHANGED <<attempt, ret, after, destroyed, client, master, server,
                   cached, settings, handlers, connLog, notifs, events, tok, re, side>>

\* variant: the settings are emitted once more after the players
WarmupEvents_mut(s, roster) ==
    IF roster = "nodata" THEN <<SettingsUpdateEvent(s), SettingsUpdateEvent(s)>>
    ELSE <<PlayerColorEvent(1, 0), SettingsUpdateEvent(s), PlayerColorEvent(1, 0), SettingsUpdateEvent(s)>>

\* the domain events of a successful warmup, lines 803 and 909-929: a
\* PlayerColor per named player of the spawned GameData, the
\* SettingsUpdate, a HostChange when the host has data, a PlayerColor per
\* player with data
WarmupEvents(s, roster) ==
    IF roster = "nodata" THEN <<SettingsUpdateEvent(s)>>
    ELSE IF roster = "data" THEN <<PlayerColorEvent(1, 0), SettingsUpdateEvent(s), PlayerColorEvent(1, 0)>>
    ELSE <<PlayerColorEvent(1, 0), SettingsUpdateEvent(s), HostChangeEvent("other"), PlayerColorEvent(1, 0)>>

\* initialSpawn, lines 890-939: the spawns and settings, or the 5 s timer,
\* have settled; take the settings over, emit them and announce readiness
IsSpawns(p) ==
    /\ pc[p] = "is_spawns"
    /\ \E o \in {"timeout", "ok"} :
          /\ Got(p, "is_spawns", o)
          /\ IF o = "timeout"
             THEN /\ FinishSpawn(p, "TimedOut", <<>>, <<>>)
                  /\ UNCHANGED settings
             ELSE IF ~client
             THEN /\ FinishSpawn(p, "NoClient", <<>>, <<>>)
                  /\ UNCHANGED settings
             ELSE \E m \in Maps, v \in Visions, roster \in {"nodata", "data", "host"} :
                  /\ settings' = [map |-> m, crewmateVision |-> v]
                  /\ Emit(WarmupEvents(settings', roster))
                  /\ issued' = <<"announce">>
                  /\ pc' = [pc EXCEPT ![p] = "is_announce"]
                  /\ UNCHANGED <<err, outLog, firstAt>>
    /\ UNCHANGED <<attempt, ret, after, redirects, destroyed, client, connected,
                   identified, joined, master, server, authToken, cached,
                   handlers, connLog, notifs, events, tok, re, side>>

\* resetObjectCaches() that captures nothing
resetObjectCaches_mut ==
    cached' = cached

\* resetObjectCaches(), lines 340-347
resetObjectCaches ==
    cached' = (cached \/ client)

\* initialSpawn, lines 934-942, and disconnect(), lines 349-351: the
\* announcement is out; capture the caches and disconnect.  When destroy()
\* has taken the client away, the announcement throws (this.client.me,
\* lines 934-937); but when it did so only during the last delay (line
\* 939), disconnect() does nothing and initialSpawn returns None.
IsAnnounce(p) ==
    /\ pc[p] = "is_announce"
    /\ Got(p, "is_announce", "ok")
    /\ IF ~client
       THEN /\ \/ /\ Throw(p)
                  /\ UNCHANGED <<err, outLog, firstAt>>
               \/ FinishSpawn(p, "None", <<>>, <<>>)
            /\ UNCHANGED cached
       ELSE /\ resetObjectCaches
            /\ Emit(<<>>)
            /\ issued' = <<"disconnect">>
            /\ pc' = [pc EXCEPT ![p] = "is_disconnect"]
            /\ UNCHANGED <<err, outLog, firstAt>>
    /\ UNCHANGED <<attempt, ret, after, redirects, destroyed, client,
                   connected, identified, joined, master, server, authToken,
                   settings, handlers, connLog, notifs, events, tok, re, side>>

\* initialSpawn, lines 941-942: the disconnect has resolved
IsDisconnect(p) ==
    /\ pc[p] = "is_disconnect"
    /\ Got(p, "is_disconnect", "ok")
    /\ Disconnected
    /\ FinishSpawn(p, "None", <<>>, <<>>)
    /\ UNCHANGED <<attempt, ret, after, redirects, destroyed, client, master,
                   server, authToken, cached, settings, handlers, connLog,
                   notifs, events, tok, re, side>>

\* --------------------------------------------------- doJoin(), continued
\* doJoin, lines 240-252 and 269-275: rotate to the next endpoint, count
\* the attempt, report a non-fatal error and call doJoin again
RotateAndRetry(p) ==
    /\ server' = NextServer
    /\ DoJoinEntry(p, attempt[p] + 1, server', emitError(<<>>, FALSE), <<>>)

\* variant: FailedToJoin is retried like a timeout
WarmupFatal_mut(e) == e \in {"GameNotFound"}

\* doJoin, lines 222 and 228: the warmup outcomes that end doJoin
WarmupFatal(e) == e \in {"GameNotFound", "FailedToJoin"}

\* doJoin, lines 220-237 and 256-265: initialSpawn has returned
DoJoinSpawned(p) ==
    /\ pc[p] = "dj_spawned"
    /\ Got(p, "dj_spawned", err[p])
    /\ IF WarmupFatal(err[p])
       THEN /\ Return(p, IF err[p] = "GameNotFound" THEN 225 ELSE 231,
                      emitError(<<>>, TRUE), <<>>)
            /\ UNCHANGED <<attempt, server>>
       ELSE IF err[p] = "None"
       THEN /\ IF destroyed
               THEN Return(p, 257, <<>>, <<>>)
               ELSE /\ pc' = [pc EXCEPT ![p] = "rj_connect"]
                    /\ Emit(<<>>)
                    /\ issued' = <<"connect">>
                    /\ UNCHANGED <<ret, client, connLog>>
            /\ UNCHANGED <<attempt, server>>
       ELSE IF err[p] = "NoClient"
       THEN RotateAndRetry(p)
       ELSE IF ~client
       THEN /\ Throw(p)
            /\ UNCHANGED <<attempt, ret, client, connLog, server>>
       ELSE /\ pc' = [pc EXCEPT ![p] = "dj_retry_disc"]
            /\ Emit(<<>>)
            /\ issued' = <<"disconnect">>
            /\ UNCHANGED <<attempt, ret, client, connLog, server>>
    /\ UNCHANGED <<err, after, redirects, destroyed, connected, identified,
                   joined, master, authToken, cached, settings, handlers,
                   outLog, firstAt, notifs, events, tok, re, side>>

\* doJoin, lines 236-252: the disconnect after a failed warmup has resolved
DoJoinRetry(p) ==
    /\ pc[p] = "dj_retry_disc"
    /\ Got(p, "dj_retry_disc", "ok")
    /\ Disconnected
    /\ RotateAndRetry(p)
    /\ UNCHANGED <<err, after, redirects, destroyed, master, authToken, cached,
                   settings, handlers, outLog, firstAt, notifs, events, tok, re, side>>

\* doJoin, lines 265-276: the rejoin connect has settled; on success call
\* identify
RjConnect(p) ==
    /\ pc[p] = "rj_connect"
    /\ \E o \in {"ok", "throw"} :
          /\ Got(p, "rj_connect", o)
          /\ IF o = "ok" /\ client
             THEN /\ Connected
                  /\ pc' = [pc EXCEPT ![p] = "rj_identify"]
                  /\ Emit(<<>>)
                  /\ issued' = <<"identify">>
                  /\ UNCHANGED <<attempt, ret, client, connLog, server>>
             ELSE /\ RotateAndRetry(p)
                  /\ UNCHANGED <<connected, identified, joined>>
    /\ UNCHANGED <<err, after, redirects, destroyed, master, authToken, cached,
                   settings, handlers, outLog, firstAt, notifs, events, tok, re, side>>

\* doJoin, lines 266-281 and 299-301, and joinGame, lines 136-170:
\* identify has settled; on success send the join request.  joinGame
\* returns null without a client, and doJoin then destroys the backend.
RjIdentify(p) ==
    /\ pc[p] = "rj_identify"
    /\ \E o \in {"ok", "throw"} :
          /\ Got(p, "rj_identify", o)
          /\ IF o = "throw"
             THEN /\ RotateAndRetry(p)
                  /\ UNCHANGED <<identified, redirects, after, destroyed>>
             ELSE IF ~client
             THEN /\ DestroyCall(p, "ret301", <<>>, connected)
                  /\ Emit(<<>>)
                  /\ UNCHANGED <<identified, redirects, attempt, ret, client,
                                 connLog, server>>
             ELSE /\ identified' = TRUE
                  /\ redirects' = [redirects EXCEPT ![p] = 0]
                  /\ pc' = [pc EXCEPT ![p] = "rj_join"]
                  /\ Emit(<<>>)
                  /\ issued' = <<"join">>
                  /\ UNCHANGED <<attempt, ret, client, connLog, server, after,
                                 destroyed>>
    /\ UNCHANGED <<err, connected, joined, master, authToken, cached, settings,
                   handlers, outLog, firstAt, notifs, events, tok, re, side>>

\* variant: the catch of the rejoin's join calls doJoin again without
\* counting the attempt
RjJoinCatch_mut(p, notFound, ops) ==
    IF notFound
    THEN /\ attempt' = [attempt EXCEPT ![p] = @ + 1]
         /\ Return(p, 288, <<>>, ops)
    ELSE DoJoinEntry(p, attempt[p], server, emitError(<<>>, FALSE), ops)

\* doJoin, lines 282-293: the join of the rejoin phase has thrown.  A
\* "Could not find the game" message returns false silently; every other
\* message is reported as non-fatal and doJoin is called again, on the
\* same endpoint.  ops are the client operations joinGame called before.
RjJoinCatch(p, notFound, ops) ==
    IF notFound
    THEN /\ attempt' = [attempt EXCEPT ![p] = @ + 1]
         /\ Return(p, 288, <<>>, ops)
    ELSE DoJoinEntry(p, attempt[p] + 1, server, emitError(<<>>, FALSE), ops)

\* who hosts the room the client has joined: nobody the client knows of,
\* another participant, or the local client
Hosts == {"none", "other", "self"}

\* variant: the local client has data whenever the host has
hostHasData_mut(host, data) ==
    host # "none" /\ data

\* doJoin, line 332: `this.client.host && this.client.host.data`.  data is
\* whether the room's game data knows the host's player; the local client
\* has joined without spawning (joinGame(code, false), line 281), and its
\* former player is not among the cached objects (line 344), so it has no
\* player there.
hostHasData(host, data) ==
    host = "other" /\ data

\* doJoin, lines 332-336: the events of a completed rejoin
RejoinEvents(host, data) ==
    IF hostHasData(host, data) THEN <<HostChangeEvent(host)>> ELSE <<>>

\* doJoin, lines 280-337, and joinGame, lines 170-203: the join answer of
\* the rejoin phase has arrived; when joined, put the cached objects into
\* the new session and report the host
RjJoin(p) ==
    /\ pc[p] = "rj_join"
    /\ \E o \in {"notfound", "error", "redirect", "redirectfail", "joined"} :
          /\ Got(p, "rj_join", o)
          /\ IF ~client \/ o = "error"
             THEN /\ RjJoinCatch(p, FALSE, <<>>)
                  /\ UNCHANGED <<connected, identified, joined, redirects, authToken>>
             ELSE IF o = "notfound"
             THEN /\ RjJoinCatch(p, TRUE, <<>>)
                  /\ UNCHANGED <<connected, identified, joined, redirects, authToken>>
             ELSE IF o = "redirect"
             THEN /\ Redirect(p, TRUE)
                  /\ Emit(<<>>)
                  /\ issued' = RedirectOps(TRUE)
                  /\ UNCHANGED <<pc, attempt, ret, client, connLog>>
             ELSE IF o = "redirectfail"
             THEN /\ Redirect(p, FALSE)
                  /\ RjJoinCatch(p, FALSE, RedirectOps(FALSE))
             ELSE /\ joined' = TRUE
                  /\ \E host \in Hosts, data \in BOOLEAN :
                        Return(p, 337, RejoinEvents(host, data), <<>>)
                  /\ UNCHANGED <<attempt, connected, identified, redirects, authToken>>
    /\ UNCHANGED <<err, after, destroyed, master, server, cached, settings,
                   handlers, outLog, firstAt, notifs, events, tok, re, side>>

\* destroy() has resolved: the caller continues
DestroyDone(p) ==
    /\ pc[p] = "destroy_done"
    /\ Got(p, "destroy_done", "ok")
    /\ IF after[p] = "ret301"
       THEN Return(p, 301, <<>>, <<>>)
       ELSE /\ pc' = [pc EXCEPT ![p] = "done"]
            /\ Emit(<<>>)
            /\ issued' = <<>>
            /\ UNCHANGED <<ret, client, connLog>>
    /\ UNCHANGED <<attempt, err, after, redirects, destroyed, connected,
                   identified, joined, master, server, authToken, cached,
                   settings, handlers, outLog, firstAt, notifs, events, tok, re, side>>

\* the caller of doJoin resumes with its result: initialize, lines 469-772
\* (subscribe the handlers), the game.end handler, lines 520-521, and the
\* player.sethost handler, lines 542-544 (destroy() on failure)
DoJoinReturn(p) ==
    /\ pc[p] = "dj_return"
    /\ Got(p, "dj_return", IF ret[p] = 337 THEN "true" ELSE "false")
    /\ Emit(<<>>)
    /\ IF p = "host" /\ ret[p] # 337
       THEN /\ DestroyCall(p, "done", <<>>, connected)
            /\ UNCHANGED handlers
       ELSE /\ pc' = [pc EXCEPT ![p] = "done"]
            /\ handlers' = (handlers \/ (p = "init" /\ ret[p] = 337 /\ client))
            /\ issued' = <<>>
            /\ UNCHANGED <<after, destroyed>>
    /\ UNCHANGED <<attempt, ret, err, redirects, client, connected, identified,
                   joined, master, server, authToken, cached, settings,
                   connLog, outLog, firstAt, notifs, events, tok, re, side>>

\* variant: initialize reports the exception and does not destroy
Caught_mut(p) ==
    /\ pc[p] = "thrown"
    /\ Got(p, "thrown", "throw")
    /\ pc' = [pc EXCEPT ![p] = "done"]
    /\ Emit(IF p = "init" THEN emitError(<<>>, TRUE) ELSE <<>>)
    /\ issued' = <<>>
    /\ UNCHANGED <<after, destroyed>>
    /\ UNCHANGED <<attempt, ret, err, redirects, client, connected, identified,
                   joined, master, server, authToken, cached, settings, handlers,
                   connLog, outLog, firstAt, notifs, events, tok, re, side>>

\* an exception has left doJoin: initialize, lines 773-778, reports a fatal
\* error and destroys the backend; a handler's promise just rejects
Caught(p) ==
    /\ pc[p] = "thrown"
    /\ Got(p, "thrown", "throw")
    /\ IF p = "init"
       THEN /\ Emit(emitError(<<>>, TRUE))
            /\ DestroyCall(p, "done", <<>>, connected)
       ELSE /\ pc' = [pc EXCEPT ![p] = "done"]
            /\ Emit(<<>>)
            /\ issued' = <<>>
            /\ UNCHANGED <<after, destroyed>>
    /\ UNCHANGED <<attempt, ret, err, redirects, client, connected, identified,
                   joined, master, server, authToken, cached, settings, handlers,
                   connLog, outLog, firstAt, notifs, events, tok, re, side>>

\* ------------------------------------------- handlers that rejoin the room
\* a notification reaches the handlers initialize subscribed on the client
\* while the client is in the room
Delivering == handlers /\ client /\ joined /\ notifs < MaxNotifs

\* game.end handler, lines 513-517, and disconnect(), lines 349-351
GameEnd ==
    /\ Delivering
    /\ pc["end"] \in {"idle", "done"}
    /\ Got("end", "notify", "game.end")
    /\ notifs' = notifs + 1
    /\ Emit(<<GameStateEvent("Lobby")>>)
    /\ resetObjectCaches
    /\ issued' = <<"disconnect">>
    /\ pc' = [pc EXCEPT !["end"] = "ge_disc"]
    /\ UNCHANGED <<attempt, ret, err, after, redirects, destroyed, client,
                   connected, identified, joined, master, server, authToken,
                   settings, handlers, connLog, outLog, firstAt, events, tok, re, side>>

\* a game.end handler without the delay: the disconnect has resolved;
\* call doJoin()
GameEndDisc_mut ==
    /\ pc["end"] = "ge_disc"
    /\ Got("end", "ge_disc", "ok")
    /\ Disconnected
    /\ DoJoinEntry("end", 0, server, <<>>, <<>>)
    /\ UNCHANGED <<err, after, redirects, destroyed, master, server, authToken,
                   cached, settings, handlers, outLog, firstAt, notifs, events, tok, re, side>>

\* game.end handler, lines 517-518: the disconnect has resolved; sleep(500)
GameEndDisc ==
    /\ pc["end"] = "ge_disc"
    /\ Got("end", "ge_disc", "ok")
    /\ Disconnected
    /\ Emit(<<>>)
    /\ issued' = <<>>
    /\ pc' = [pc EXCEPT !["end"] = "ge_sleep"]
    /\ UNCHANGED <<attempt, ret, err, after, redirects, destroyed, client,
                   master, server, authToken, cached, settings, handlers,
                   connLog, outLog, firstAt, notifs, events, tok, re, side>>

\* game.end handler, lines 518-520: the delay is over; call doJoin()
GameEndSleep ==
    /\ pc["end"] = "ge_sleep"
    /\ Got("end", "ge_sleep", "ok")
    /\ DoJoinEntry("end", 0, server, <<>>, <<>>)
    /\ UNCHANGED <<err, after, redirects, destroyed, connected, identified,
                   joined, master, server, authToken, cached, settings, handlers,
                   outLog, firstAt, notifs, events, tok, re, side>>

\* player.sethost handler, lines 524-536: the local client became host and
\* is the only participant left
SetHostSole ==
    /\ Delivering
    /\ pc["host"] \in {"idle", "done"}
    /\ Got("host", "notify", "sethost.sole")
    /\ notifs' = notifs + 1
    /\ Emit(<<>>)
    /\ issued' = <<"disconnect">>
    /\ pc' = [pc EXCEPT !["host"] = "sh_disc_sole"]
    /\ UNCHANGED <<attempt, ret, err, after, redirects, destroyed, client,
                   connected, identified, joined, master, server, authToken,
                   cached, settings, handlers, connLog, outLog, firstAt, events, tok, re, side>>

\* player.sethost handler, lines 533-535: the disconnect has resolved; call
\* destroy()
SetHostSoleDisc ==
    /\ pc["host"] = "sh_disc_sole"
    /\ Got("host", "sh_disc_sole", "ok")
    /\ Disconnected
    /\ Emit(<<>>)
    /\ DestroyCall("host", "done", <<>>, FALSE)
    /\ UNCHANGED <<attempt, ret, err, redirects, client, master, server,
                   authToken, cached, settings, handlers, connLog, outLog, firstAt,
                   notifs, events, tok, re, side>>

\* player.sethost handler, lines 524-540: the local client became host and
\* other participants remain
SetHostSelf ==
    /\ Delivering
    /\ pc["host"] \in {"idle", "done"}
    /\ Got("host", "notify", "sethost.self")
    /\ notifs' = notifs + 1
    /\ resetObjectCaches
    /\ Emit(<<>>)
    /\ issued' = <<"disconnect">>
    /\ pc' = [pc EXCEPT !["host"] = "sh_disc"]
    /\ UNCHANGED <<attempt, ret, err, after, redirects, destroyed, client,
                   connected, identified, joined, master, server, authToken,
                   settings, handlers, connLog, outLog, firstAt, events, tok, re, side>>

\* player.sethost handler, lines 540-542: the disconnect has resolved; call
\* doJoin()
SetHostDisc ==
    /\ pc["host"] = "sh_disc"
    /\ Got("host", "sh_disc", "ok")
    /\ Disconnected
    /\ DoJoinEntry("host", 0, server, <<>>, <<>>)
    /\ UNCHANGED <<err, after, redirects, destroyed, master, server, authToken,
                   cached, settings, handlers, outLog, firstAt, notifs, events, tok, re, side>>

\* player.sethost handler, lines 547-552: another player became host
SetHostOther ==
    /\ Delivering
    /\ notifs' = notifs + 1
    /\ issued' = <<>>
    /\ \E hostData \in BOOLEAN :
          /\ Got("host", "notify", IF hostData THEN "sethost.other" ELSE "sethost.nodata")
          /\ Emit(IF hostData THEN <<HostChangeEvent("other")>> ELSE <<>>)
    /\ UNCHANGED <<pc, attempt, ret, err, after, redirects, destroyed, client,
                   connected, identified, joined, master, server, authToken,
                   cached, settings, handlers, connLog, outLog, firstAt, events, tok, re, side>>

\* ------------------------------------------------------ the supervisor
Next ==
    \/ Initialize
    \/ InitResolved
    \/ InitToken
    \/ \E p \in Joiners : IsConnect(p)
    \/ \E p \in Joiners : IsIdentify(p)
    \/ \E p \in Joiners : IsJoin(p)
    \/ \E p \in Joiners : IsSpawns(p)
    \/ \E p \in Joiners : IsAnnounce(p)
    \/ \E p \in Joiners : IsDisconnect(p)
    \/ \E p \in Joiners : DoJoinSpawned(p)
    \/ \E p \in Joiners : DoJoinRetry(p)
    \/ \E p \in Joiners : RjConnect(p)
    \/ \E p \in Joiners : RjIdentify(p)
    \/ \E p \in Joiners : RjJoin(p)
    \/ \E p \in Joiners : DoJoinReturn(p)
    \/ \E p \in Joiners : Caught(p)
    \/ \E p \in {"init", "ext1"} : DestroyResume(p)
    \/ \E p \in {"init", "ext1"} : DestroyDone(p)
    \/ ExtDestroy("ext1")

Spec == Init /\ [][Next]_vars

\* ------------------------------------------- the ready backend, rejoining
\* the state in which initialize() leaves the backend when the warmup and
\* the rejoin succeeded at the first attempt: the client is in the room,
\* the caches are captured and the handlers are subscribed
InitReady ==
    /\ pc = [p \in Procs |-> IF p = "init" THEN "done" ELSE "idle"]
    /\ attempt = [p \in Procs |-> 0]
    /\ ret = [p \in Procs |-> IF p = "init" THEN 337 ELSE 0]
    /\ err = [p \in Procs |-> "None"]
    /\ after = [p \in Procs |-> "done"]
    /\ redirects = [p \in Procs |-> 0]
    /\ destroyed = FALSE
    /\ client = TRUE
    /\ connected = TRUE
    /\ identified = TRUE
    /\ joined = TRUE
    /\ \E n \in 1..MaxServers : \E r \in 0..(n - 1) :
          /\ master = [i \in 1..n |-> i]
          /\ server = r
          /\ connLog = <<r>>
    /\ authToken \in AuthResults
    /\ cached = TRUE
    /\ settings \in [map : Maps, crewmateVision : Visions]
    /\ handlers = TRUE
    /\ outLog = <<"None">>
    /\ firstAt = "is_disconnect"
    /\ notifs = 0
    /\ got = [proc |-> "init", at |-> "dj_return", outcome |-> "true"]
    /\ emitted = <<>>
    /\ issued = <<>>
    /\ count = [fatal |-> 0, nonfatal |-> 0, settings |-> 1]
    /\ events = <<>>
    /\ tok = NoTok
    /\ re = NoReattach
    /\ dns = NoResolve
    /\ store = NoSession
    /\ jg = NoJoinGame
    /\ cap = NoCapture
    /\ meet = NoMeeting
    /\ aw = NoAwait
    /\ idt = NoIdentify
    /\ gs = NoGameState
    /\ ab = NoAbandon
    /\ vt = NoVent
    /\ rd = NoRedirect

\* the rejoin does not read the settings mirror or the token value
InitRejoin ==
    /\ InitReady
    /\ settings = [map |-> TheSkeld, crewmateVision |-> DefaultVision]
    /\ authToken = 0

NextRejoin ==
    \/ GameEnd
    \/ GameEndDisc
    \/ GameEndSleep
    \/ SetHostSole
    \/ SetHostSoleDisc
    \/ SetHostSelf
    \/ SetHostDisc
    \/ SetHostOther
    \/ \E p \in {"end", "host"} : RjConnect(p)
    \/ \E p \in {"end", "host"} : RjIdentify(p)
    \/ \E p \in {"end", "host"} : RjJoin(p)
    \/ \E p \in {"end", "host"} : DoJoinReturn(p)
    \/ DestroyResume("host")
    \/ DestroyDone("host")

SpecRejoin == InitRejoin /\ [][NextRejoin]_vars

\* --------------------------------------------- the ready backend, shut down
NextDestroy ==
    \/ \E p \in Destroyers : ExtDestroy(p)
    \/ \E p \in Procs : DestroyResume(p)
    \/ DestroyDone("host")
    \/ SetHostSole
    \/ SetHostSoleDisc
    \/ SetHostOther

SpecDestroy == InitReady /\ [][NextDestroy]_vars

\* ------------------------------------------------ the auth-token retrier
\* a caller awaits tryGetAuthToken(ip); outs are the outcomes the
\* successive getAuthToken calls will have
InitAuth ==
    /\ Init!1 /\ Init!2 /\ Init!3 /\ Init!4 /\ Init!5 /\ Init!6 /\ Init!7
    /\ Init!8 /\ Init!9 /\ Init!10 /\ Init!11 /\ Init!12 /\ Init!13 /\ Init!14
    /\ Init!15 /\ Init!16 /\ Init!17 /\ Init!18 /\ Init!19 /\ Init!20 /\ Init!21
    /\ Init!22 /\ Init!23 /\ Init!24 /\ Init!25 /\ Init!26 /\ Init!28
    /\ Init!29 /\ Init!30 /\ Init!31 /\ Init!32
    /\ Init!33 /\ Init!34 /\ Init!35
    /\ Init!36 /\ Init!37 /\ Init!38 /\ Init!39
    /\ \E outs \in AuthRuns :
          tok = [state |-> "called", outs |-> outs, token |-> 0, calls |-> 0]

\* tryGetAuthToken(ip), lines 413-429, run to its return
TryGetAuthToken ==
    /\ tok.state = "called"
    /\ LET r == tryGetAuthToken(tok.outs, 0) IN
       tok' = [state |-> "returned", outs |-> tok.outs, token |-> r.token,
               calls |-> r.calls]
    /\ UNCHANGED <<pc, attempt, ret, err, after, redirects, destroyed, client,
                   connected, identified, joined, master, server, authToken,
                   cached, settings, handlers, connLog, outLog, firstAt, notifs, got,
                   emitted, issued, count, events, re, side>>

SpecAuth == InitAuth /\ [][TryGetAuthToken]_vars

\* ------------------------------------------- the notification translator
\* player.syncsettings handler, lines 590-602: the mirror after a
\* notification carrying the settings s
syncsettings(mirror, s) ==
    LET m1 == IF s.crewmateVision # mirror.crewmateVision
              THEN [mirror EXCEPT !.crewmateVision = s.crewmateVision]
              ELSE mirror
    IN  IF s.map # m1.map THEN [m1 EXCEPT !.map = s.map] ELSE m1

\* player.syncsettings handler, line 603: the events the handler emits for
\* the mirror `before` the notification and the mirror `now`
syncsettingsEvents(before, now) ==
    <<SettingsUpdateEvent(now)>>

\* player.syncsettings handler, lines 589-604
SyncSettings ==
    /\ handlers /\ client /\ joined
    /\ notifs < MaxSyncs
    /\ notifs' = notifs + 1
    /\ \E s \in [map : Maps, crewmateVision : Visions] :
          /\ got' = [proc |-> "translator", at |-> "player.syncsettings", outcome |-> s]
          /\ settings' = syncsettings(settings, s)
          /\ Emit(syncsettingsEvents(settings, settings'))
    /\ events' = events \o emitted'
    /\ issued' = <<>>
    /\ UNCHANGED <<pc, attempt, ret, err, after, redirects, destroyed, client,
                   connected, identified, joined, master, server, authToken,
                   cached, handlers, connLog, outLog, firstAt, tok, re, side>>

\* the player a notification refers to: none, or a player with or without
\* attached data; a player's name is written as its id
NoPlayer == [id |-> 0, data |-> FALSE]
PlayerRefs == {NoPlayer} \cup {[id |-> i, data |-> d] : i \in 1..MaxPlayers, d \in BOOLEAN}
Vents == 0..MaxVent
Colors == 0..MaxColor

\* variant: a player that is there counts as having data
hasData_mut(player) ==
    player # NoPlayer

\* `player?.data`, `player && player.data`
hasData(player) ==
    player # NoPlayer /\ player.data

\* what a handler has done when it returns: the events it emitted, and
\* whether it returned by an exception
Handled(evs) == [events |-> evs, thrown |-> FALSE]

\* player.move handlers, lines 481-487 and 759-770
playerMove(player) ==
    Handled(IF hasData(player) THEN <<PlayerPoseEvent(player.id)>> ELSE <<>>)

\* player.snapto handler, lines 489-498
playerSnapTo(player) ==
    Handled(IF hasData(player) THEN <<PlayerPoseEvent(player.id)>> ELSE <<>>)

\* player.setcolor handler, lines 619-631
playerSetColor(player, color) ==
    Handled(IF hasData(player) THEN <<PlayerColorEvent(player.id, color)>> ELSE <<>>)

\* variant: the killer is reported too
playerMurder_mut(player, victim) ==
    Handled(IF hasData(victim)
            THEN <<PlayerFlagsEvent(victim.id, "IsDead", TRUE),
                   PlayerFlagsEvent(player.id, "IsDead", FALSE)>>
            ELSE <<>>)

\* player.murder handler, lines 673-681
playerMurder(player, victim) ==
    Handled(IF hasData(victim)
            THEN <<PlayerFlagsEvent(victim.id, "IsDead", TRUE)>>
            ELSE <<>>)

\* player.entervent handler, lines 683-691
playerEnterVent(player, ventid) ==
    Handled(IF hasData(player) THEN <<PlayerVentEvent(player.id, ventid)>> ELSE <<>>)

\* player.exitvent handler, lines 693-701
playerExitVent(player) ==
    Handled(IF hasData(player) THEN <<PlayerVentEvent(player.id, -1)>> ELSE <<>>)

\* player.setimpostors handler, lines 703-714
RECURSIVE playerSetImpostors(_)
playerSetImpostors(impostors) ==
    IF impostors = <<>> THEN Handled(<<>>)
    ELSE LET player == Head(impostors)
             rest == playerSetImpostors(Tail(impostors))
         IN  Handled((IF hasData(player)
                      THEN <<PlayerFlagsEvent(player.id, "IsImpostor", TRUE)>>
                      ELSE <<>>) \o rest.events)

\* security.cameras.join handler, lines 729-737
camerasJoin(player) ==
    Handled(IF hasData(player) THEN <<PlayerFlagsEvent(player.id, "OnCams", TRUE)>> ELSE <<>>)

\* security.cameras.leave handler, lines 739-747
camerasLeave(player) ==
    Handled(IF hasData(player) THEN <<PlayerFlagsEvent(player.id, "OnCams", FALSE)>> ELSE <<>>)

\* a notification about players, as the client hands it to its handler
Notification(kind, player, victim, impostors, ventid, color) ==
    [kind |-> kind, player |-> player, victim |-> victim,
     impostors |-> impostors, ventid |-> ventid, color |-> color]

ImpostorLists == UNION {[1..n -> PlayerRefs] : n \in 0..MaxImpostors}

Notifications ==
    {Notification(k, p, NoPlayer, <<>>, 0, 0) :
        k \in {"player.move", "player.snapto", "player.exitvent",
               "security.cameras.join", "security.cameras.leave"},
        p \in PlayerRefs}
    \cup {Notification("player.setcolor", p, NoPlayer, <<>>, 0, c) :
             p \in PlayerRefs, c \in Colors}
    \cup {Notification("player.entervent", p, NoPlayer, <<>>, v, 0) :
             p \in PlayerRefs, v \in Vents}
    \cup {Notification("player.murder", p, v, <<>>, 0, 0) :
             p \in PlayerRefs, v \in PlayerRefs}
    \cup {Notification("player.setimpostors", NoPlayer, NoPlayer, imps, 0, 0) :
             imps \in ImpostorLists}

\* initialize, lines 481-498 and 619-747: the handler subscribed for the
\* notification's kind
handle(n) ==
    CASE n.kind = "player.move" -> playerMove(n.player)
      [] n.kind = "player.snapto" -> playerSnapTo(n.player)
      [] n.kind = "player.setcolor" -> playerSetColor(n.player, n.color)
      [] n.kind = "player.murder" -> playerMurder(n.player, n.victim)
      [] n.kind = "player.entervent" -> playerEnterVent(n.player, n.ventid)
      [] n.kind = "player.exitvent" -> playerExitVent(n.player)
      [] n.kind = "player.setimpostors" -> playerSetImpostors(n.impostors)
      [] n.kind = "security.cameras.join" -> camerasJoin(n.player)
      [] n.kind = "security.cameras.leave" -> camerasLeave(n.player)

\* the client delivers a notification about players to its handler
Notify ==
    /\ handlers /\ client /\ joined
    /\ notifs < MaxSyncs
    /\ notifs' = notifs + 1
    /\ \E n \in Notifications :
          LET h == handle(n) IN
          /\ got' = [proc |-> "translator", at |-> n.kind,
                     outcome |-> [n |-> n, thrown |-> h.thrown]]
          /\ Emit(h.events)
    /\ issued' = <<>>
    /\ UNCHANGED <<pc, attempt, ret, err, after, redirects, destroyed, client,
                   connected, identified, joined, master, server, authToken,
                   cached, settings, handlers, connLog, outLog, firstAt, events,
                   tok, re, side>>

NextEvents ==
    \/ SyncSettings
    \/ Notify
    \/ SetHostOther

SpecEvents == InitReady /\ [][NextEvents]_vars

\* ------------------------------------------------ putting the snapshot back
\* An entity is written as the session its `room` refers to; a position of
\* a singleton list that holds no component is a Hole.
Hole == 0
OldSession == 1
NewSession == 2
EntityKeys == 1..MaxEntities


\* the maps from a set of keys to entities of session s
EntityMaps(s) == UNION {[D -> {s}] : D \in SUBSET EntityKeys}
\* the singleton lists whose components are of session s
EntityLists(s) == UNION {[1..n -> {Hole, s}] : n \in 0..MaxList}

\* doJoin, lines 304-310 and 312-318: every entry of the cache that is an
\* entity gets the client as its room and is set under its key in the
\* client's map
reattachMap(cache, map, room) ==
    LET keys == {k \in DOMAIN cache : cache[k] # Hole} IN
    [k \in (DOMAIN map) \cup keys |-> IF k \in keys THEN room ELSE map[k]]

\* variant: the singleton list is replaced by the cached one
reattachList_mut(cache, list, room) ==
    [i \in 1..Len(cache) |-> IF cache[i] # Hole THEN room ELSE Hole]

\* doJoin, lines 320-328: every position of the cached list that holds a
\* component is assigned in the client's list, which grows to reach it;
\* the other positions stay as the client has them
reattachList(cache, list, room) ==
    LET at == {i \in 1..Len(cache) : cache[i] # Hole}
        n  == Max({Len(list)} \cup at)
    IN  [i \in 1..n |-> IF i \in at THEN room
                        ELSE IF i <= Len(list) THEN list[i] ELSE Hole]

\* variant: the step ends once the entity under the first key is rebound
rebound_mut(cache, room) ==
    [k \in DOMAIN cache |-> IF cache[k] # Hole /\ k = 1 THEN room ELSE cache[k]]

\* doJoin, lines 308, 316 and 326: the cache refers to the same entities,
\* so it sees the room they now have
rebound(cache, room) ==
    [k \in DOMAIN cache |-> IF cache[k] # Hole THEN room ELSE Hole]

\* doJoin is past the join of its rejoin phase: the snapshot that
\* resetObjectCaches() took from the session before, and what the client
\* holds of the session it has just joined
InitReattach ==
    /\ InitReady!1 /\ InitReady!2 /\ InitReady!3 /\ InitReady!4 /\ InitReady!5
    /\ InitReady!6 /\ InitReady!7 /\ InitReady!8 /\ InitReady!9 /\ InitReady!10
    /\ InitReady!11 /\ InitReady!14 /\ InitReady!16
    /\ InitReady!17 /\ InitReady!18 /\ InitReady!19 /\ InitReady!20
    /\ InitReady!21 /\ InitReady!22 /\ InitReady!23 /\ InitReady!24
    /\ InitReady!25 /\ InitReady!27 /\ InitReady!28 /\ InitReady!29
    /\ InitReady!30 /\ InitReady!31 /\ InitReady!32 /\ InitReady!33
    /\ InitReady!34 /\ InitReady!35 /\ InitReady!36 /\ InitReady!37
    /\ master = <<1>> /\ server = 0 /\ connLog = <<0>>
    /\ settings = [map |-> TheSkeld, crewmateVision |-> DefaultVision]
    /\ authToken = 0
    /\ \E pcache \in EntityMaps(OldSession), ccache \in EntityMaps(OldSession),
          gcache \in EntityLists(OldSession),
          objs \in EntityMaps(NewSession), nets \in EntityMaps(NewSession),
          comps \in EntityLists(NewSession) :
          re = [phase |-> "joined",
                players_cache |-> pcache, components_cache |-> ccache,
                global_cache |-> gcache,
                objects |-> objs, netobjects |-> nets, components |-> comps,
                was |-> [objects |-> objs, netobjects |-> nets, components |-> comps]]

\* doJoin, lines 297-337, in a chain of its own
Reattach ==
    /\ re.phase = "joined"
    /\ re' = [re EXCEPT
                !.phase = "reattached",
                !.objects = reattachMap(re.players_cache, @, NewSession),
                !.netobjects = reattachMap(re.components_cache, @, NewSession),
                !.components = reattachList(re.global_cache, @, NewSession),
                !.players_cache = rebound(@, NewSession),
                !.components_cache = rebound(@, NewSession),
                !.global_cache = rebound(@, NewSession)]
    /\ got' = [proc |-> "init", at |-> "rj_join", outcome |-> "joined"]
    /\ \E host \in Hosts, data \in BOOLEAN : Emit(RejoinEvents(host, data))
    /\ issued' = <<>>
    /\ UNCHANGED <<pc, attempt, ret, err, after, redirects, destroyed, client,
                   connected, identified, joined, master, server, authToken,
                   cached, settings, handlers, connLog, outLog, firstAt, notifs,
                   events, tok, side>>

NextReattach ==
    \/ Reattach

SpecReattach == InitReattach /\ [][NextReattach]_vars

\* ------------------------------------------------------- resolveMMDNS
\* The static PublicLobbyBackend.OfficialServers, shared by every backend
\* instance of the process, and calls of resolveMMDNS(region, names), each
\* suspended at its lookupDns await.  An address is a number, an endpoint
\* the pair of an address and the matchmaker port.
Regions == 1..MaxRegions
Resolvers == 1..MaxResolves
MatchmakerPort == 22023
\* the hostnames of region r in the matchmaker table
Names(r) == [i \in 1..r |-> i]
\* what one lookupDns(name, {all: true, family: 4}) resolves with
Addresses == {1, 2}
LookupAddresses == [address : Addresses, family : {4, 6}]
LookupResults == UNION {[1..n -> LookupAddresses] : n \in 1..MaxIps}
LookupFailure == "ENOTFOUND"

\* resolveMMDNS, line 362: ips.filter(family === 4).map([address, 22023])
RECURSIVE v4(_)
v4(ips) ==
    IF ips = <<>> THEN <<>>
    ELSE (IF Head(ips).family = 4
          THEN <<(<<Head(ips).address, MatchmakerPort>>)>>
          ELSE <<>>) \o v4(Tail(ips))

\* variant: the region's entry is replaced by the servers of this call
pushServers_mut(regions, region, servers) ==
    [regions EXCEPT ![region] = servers]

\* resolveMMDNS, lines 367-368: regions[region].push(...servers), the
\* entry being made empty first when the region has none
pushServers(regions, region, servers) ==
    [regions EXCEPT ![region] = @ \o servers]

\* resolveMMDNS, lines 354-361: a backend calls resolveMMDNS and waits for
\* the lookup of the first hostname
ResolveCall(c) ==
    /\ dns.calls[c].state = "idle"
    /\ \E region \in Regions :
          dns' = [dns EXCEPT !.calls[c] =
                     [state |-> "looking", region |-> region, name |-> 1,
                      results |-> <<>>, servers |-> <<>>]]
    /\ UNCHANGED <<instance, store, jg, cap, meet, aw, idt, gs, ab, vt, rd>>

\* variant: a failed lookup appends what the call has found so far
onLookupFailure_mut(regions, region, servers) ==
    pushServers(regions, region, servers)

\* resolveMMDNS, line 361: a rejected lookup throws out of the loop, past
\* lines 367-368: the regions stay as they are
onLookupFailure(regions, region, servers) ==
    regions

\* resolveMMDNS, lines 361-369: a lookup has settled.  A failed lookup
\* rejects the call; a successful one adds its IPv4 addresses to the
\* servers of the call, and after the last hostname the servers are
\* appended to the region's entry, which is returned.
ResolveLookup(c) ==
    LET call == dns.calls[c] IN
    /\ call.state = "looking"
    /\ \/ dns' = [cache |-> onLookupFailure(dns.cache, call.region, call.servers),
                  calls |-> [dns.calls EXCEPT ![c] =
                      [state |-> "rejected", region |-> call.region,
                       error |-> LookupFailure, name |-> call.name,
                       servers |-> call.servers]]]
       \/ \E ips \in LookupResults :
             LET servers == call.servers \o v4(ips)
                 results == Append(call.results, ips)
             IN  IF call.name < Len(Names(call.region))
                 THEN dns' = [dns EXCEPT !.calls[c] =
                                 [call EXCEPT !.name = @ + 1, !.results = results,
                                              !.servers = servers]]
                 ELSE LET regions == pushServers(dns.cache, call.region, servers) IN
                      dns' = [cache |-> regions,
                              calls |-> [dns.calls EXCEPT ![c] =
                                  [state |-> "returned", region |-> call.region,
                                   results |-> results,
                                   returned |-> regions[call.region]]]]
    /\ UNCHANGED <<instance, store, jg, cap, meet, aw, idt, gs, ab, vt, rd>>

NextResolve ==
    \/ \E c \in Resolvers : ResolveCall(c)
    \/ \E c \in Resolvers : ResolveLookup(c)

SpecResolve == Init /\ [][NextResolve]_vars

\* ------------------------------------------------------- the consumer
\* The web client: its Vuex store and the ServerDisplayer component, both
\* subscribed to the socket events of the server.  store.pending counts the
\* onDisconnect calls of the component that are suspended at an await.
Uuids == {"", "u1"}
PlayerNames == {"", "n1"}
BackendModels == {NoBackend, [gameCode |-> "ABCDEF", backendType |-> "PublicLobby"]}
Receiving == store.delivered < MaxSocketEvents
Received(st, type, fatal) ==
    [st EXCEPT !.delivered = @ + 1, !.event = [type |-> type, fatal |-> fatal]]

\* store action destroyConnection, lines 131-141 of the store
destroyConnection(st) ==
    [st EXCEPT !.uuid = "", !.joinedRoom = FALSE, !.name = "",
               !.backendModel = NoBackend]

\* variant: every Error tears the session down
socket_error_mut(st, fatal) ==
    destroyConnection(st)

\* store action socket_error, lines 142-144 of the store
socket_error(st, fatal) ==
    IF fatal THEN destroyConnection(st) ELSE st

\* ServerDisplayer.onDisconnect, lines 1222-1226: up to its first await
onDisconnect(st) ==
    [st EXCEPT !.pending = @ + 1]

\* ServerDisplayer.onError, lines 1254-1259: show the message, and on a
\* fatal error call onDisconnect()
onError(st, fatal) ==
    IF fatal THEN onDisconnect(st) ELSE st

\* the consumer receives an Error event
SocketError ==
    /\ Receiving
    /\ \E fatal \in BOOLEAN :
          store' = Received(onError(socket_error(store, fatal), fatal), "error", fatal)
    /\ UNCHANGED <<instance, dns, jg, cap, meet, aw, idt, gs, ab, vt, rd>>

\* the consumer receives the socket's disconnect event: store action
\* socket_disconnect, lines 145-147, and ServerDisplayer.onDisconnect
SocketDisconnect ==
    /\ Receiving
    /\ store' = Received(onDisconnect(destroyConnection(store)), "disconnect", FALSE)
    /\ UNCHANGED <<instance, dns, jg, cap, meet, aw, idt, gs, ab, vt, rd>>

\* ServerDisplayer.onDisconnect, lines 1228-1251: the audio connection and
\* the peer are closed; reset the store
OnDisconnectDone ==
    /\ store.pending > 0
    /\ store' = [store EXCEPT !.pending = @ - 1, !.joinedRoom = FALSE,
                              !.backendModel = NoBackend, !.uuid = "",
                              !.name = "", !.host = "",
                              !.event = [type |-> "closed", fatal |-> FALSE]]
    /\ UNCHANGED <<instance, dns, jg, cap, meet, aw, idt, gs, ab, vt, rd>>

\* store action socket_setuuid, lines 148-150
SocketSetUuid ==
    /\ Receiving
    /\ \E uuid \in Uuids \ {""} :
          store' = Received([store EXCEPT !.uuid = uuid], "setuuid", FALSE)
    /\ UNCHANGED <<instance, dns, jg, cap, meet, aw, idt, gs, ab, vt, rd>>

\* store action socket_sethost, lines 197-199
SocketSetHost ==
    /\ Receiving
    /\ \E name \in PlayerNames :
          store' = Received([store EXCEPT !.host = name], "sethost", FALSE)
    /\ UNCHANGED <<instance, dns, jg, cap, meet, aw, idt, gs, ab, vt, rd>>

\* mutations setJoinedRoom and setNameAndBackendModel, lines 110-116, as
\* committed when the user joins a room
JoinRoom ==
    /\ Receiving
    /\ ~store.joinedRoom
    /\ \E name \in PlayerNames \ {""}, model \in BackendModels \ {NoBackend} :
          store' = Received([store EXCEPT !.joinedRoom = TRUE, !.name = name,
                                          !.backendModel = model], "joinroom", FALSE)
    /\ UNCHANGED <<instance, dns, jg, cap, meet, aw, idt, gs, ab, vt, rd>>

NextConsumer ==
    \/ SocketError
    \/ SocketDisconnect
    \/ OnDisconnectDone
    \/ SocketSetUuid
    \/ SocketSetHost
    \/ JoinRoom

SpecConsumer == Init /\ [][NextConsumer]_vars

\* ------------------------------------------------------------ joinGame
\* One call of joinGame(code, doSpawn), lines 136-203, suspended at each of
\* its awaits, on a client of its own.  Endpoints are numbers: HomeEndpoint
\* is this.master[this.server], to which the client is connected when the
\* call starts.  jg.frames holds the parameters of the call and of each
\* call joinGame makes of itself; jg.ops the client operations so far.
HomeEndpoint == 1
RedirectEndpoints == {2, 3}
Codes == {1, 2}
NoRoom == 0

Op(name, endpoint, arg) == [op |-> name, endpoint |-> endpoint, arg |-> arg]
Called(j, o) == [j EXCEPT !.ops = Append(@, o)]
Frame(j) == j.frames[Len(j.frames)]

\* how a call settles: it has not yet, returns null, returns the room code
\* of the client, or throws
Pending == [kind |-> "pending"]
Null == [kind |-> "null"]
Code(c) == [kind |-> "code", code |-> c]
Thrown == [kind |-> "error"]

\* a return statement of joinGame
JgReturn(j, value) == [j EXCEPT !.at = "return", !.result = value]
\* an exception leaves joinGame
JgThrow(j) == [j EXCEPT !.at = "throw", !.result = Thrown]

\* joinGame, lines 145-168: from the null checks to the await of the first
\* client operation, for the parameters of the innermost call
JgEntry(j) ==
    IF ~j.client \/ ~j.identified
    THEN JgReturn(j, Null)
    ELSE IF j.me /\ j.room # Frame(j).code
    THEN Called([j EXCEPT !.at = "rc_disc", !.why = "switch", !.target = j.endpoint],
                Op("disconnect", j.endpoint, 0))
    ELSE Called([j EXCEPT !.at = "send"], Op("join", j.endpoint, Frame(j)))

\* variant: the join is sent again without spawning
JgAgain_mut(j) ==
    JgEntry([j EXCEPT !.frames = Append(@, [code |-> Frame(j).code, doSpawn |-> FALSE])])

\* joinGame, line 195: `return await this.joinGame(code, doSpawn)`
JgAgain(j) ==
    JgEntry([j EXCEPT !.frames = Append(@, Frame(j))])

JgStep(j) ==
    /\ jg' = j
    /\ UNCHANGED <<instance, dns, store, cap, meet, aw, idt, gs, ab, vt, rd>>

\* joinGame is called on a connected client
JgCall ==
    /\ jg.at = "idle"
    /\ \E code \in Codes, doSpawn \in BOOLEAN, ident \in BOOLEAN,
          room \in {NoRoom} \cup Codes, token \in Tokens :
          JgStep(JgEntry([at |-> "entry", why |-> "none", target |-> HomeEndpoint,
                          frames |-> <<[code |-> code, doSpawn |-> doSpawn]>>,
                          client |-> TRUE, identified |-> ident,
                          username |-> ident, me |-> room # NoRoom,
                          room |-> room, endpoint |-> HomeEndpoint,
                          authToken |-> token, tokenFor |-> HomeEndpoint,
                          redirects |-> 0, ops |-> <<>>, result |-> Pending]))

\* joinGame, lines 159-177: the join request is sent; wait for the answer
JgSent ==
    /\ jg.at = "send"
    /\ JgStep(IF jg.client THEN [jg EXCEPT !.at = "answer"] ELSE JgThrow(jg))

\* joinGame, lines 170-202: the answer is there
JgAnswer ==
    /\ jg.at = "answer"
    /\ \/ JgStep(JgThrow(jg))
       \/ /\ jg.client
          /\ jg.redirects < MaxRedirects
          /\ \E ep \in RedirectEndpoints \ {jg.endpoint} :
                JgStep(Called([jg EXCEPT !.at = "rc_disc", !.why = "redirect",
                                         !.target = ep, !.redirects = @ + 1],
                              Op("disconnect", jg.endpoint, 0)))
       \/ /\ jg.client
          /\ LET j == [jg EXCEPT !.room = Frame(jg).code] IN
             JgStep(IF Frame(jg).doSpawn
                    THEN Called([j EXCEPT !.at = "spawn"], Op("spawn", j.endpoint, 0))
                    ELSE JgReturn(j, Code(j.room)))

\* joinGame, lines 154-155 and 191-192: the disconnect has resolved; ask
\* for a token, of the home endpoint (this.master[this.server]) or of the
\* endpoint of the Redirect
JgDisconnected ==
    /\ jg.at = "rc_disc"
    /\ LET ep == IF jg.why = "switch" THEN HomeEndpoint ELSE jg.target IN
       JgStep(Called([jg EXCEPT !.at = "rc_token", !.identified = FALSE,
                                !.me = FALSE, !.room = NoRoom],
                     Op("token", ep, 0)))

\* joinGame, lines 155-156 and 192-193: the token is there; connect with
\* the username the client had and the new token
JgToken ==
    /\ jg.at = "rc_token"
    /\ \E t \in Tokens :
          LET j == [jg EXCEPT !.authToken = t,
                              !.tokenFor = IF jg.why = "switch" THEN HomeEndpoint
                                           ELSE jg.target]
          IN  JgStep(IF ~j.client THEN JgThrow(j)
                     ELSE Called([j EXCEPT !.at = "rc_connect"],
                                 Op("connect", j.target, j.authToken)))

\* joinGame, lines 156-159 and 193-195: the connect has settled; a connect
\* with a username identifies.  Go on to the join request, or call
\* joinGame again after a Redirect.
JgConnected ==
    /\ jg.at = "rc_connect"
    /\ \/ JgStep(JgThrow(jg))
       \/ LET j == [jg EXCEPT !.endpoint = jg.target, !.identified = jg.username] IN
          /\ jg.client
          /\ JgStep(IF jg.why = "redirect" THEN JgAgain(j)
                    ELSE Called([j EXCEPT !.at = "send"],
                                Op("join", j.endpoint, Frame(j))))

\* joinGame, lines 197-201: spawnSelf has resolved
JgSpawned ==
    /\ jg.at = "spawn"
    /\ JgStep(IF jg.client THEN JgReturn([jg EXCEPT !.me = TRUE], Code(jg.room))
              ELSE JgThrow(jg))

\* joinGame, line 195: the call joinGame made of itself has settled, and
\* its caller settles the same way; the outermost call is done
JgUnwind ==
    /\ jg.at \in {"return", "throw"}
    /\ JgStep(IF Len(jg.frames) > 1
              THEN [jg EXCEPT !.frames = SubSeq(@, 1, Len(@) - 1)]
              ELSE [jg EXCEPT !.at = IF jg.at = "return" THEN "returned" ELSE "thrown"])

\* destroy(), line 951, between two steps of the call
JgDestroy ==
    /\ jg.at \notin {"idle", "returned", "thrown"}
    /\ jg.client
    /\ JgStep([jg EXCEPT !.client = FALSE])

NextJoinGame ==
    \/ JgCall
    \/ JgSent
    \/ JgAnswer
    \/ JgDisconnected
    \/ JgToken
    \/ JgConnected
    \/ JgSpawned
    \/ JgUnwind
    \/ JgDestroy

SpecJoinGame == Init /\ [][NextJoinGame]_vars

\* ---------------------------------------------------- resetObjectCaches
\* The registries of the protocol client and the three caches.  An object
\* is keyed by its id: RoomId for the room itself, a client id for a
\* player; a networked component is keyed by its net id and has an owner
\* id; the room's singleton list is indexed by position and may have holes.
RoomId == -2
ClientIds == 1..MaxEntities
ObjectIds == {RoomId} \cup ClientIds
NetIds == 1..MaxEntities
ObjectMaps == UNION {[D -> {"object"}] : D \in SUBSET ObjectIds}
NetObjectMaps == UNION {[D -> [ownerid : ObjectIds]] : D \in SUBSET NetIds}
SingletonLists == UNION {[1..n -> {Hole, OldSession}] : n \in 0..MaxList}

\* the part of a map whose entries satisfy keep(key, value)
Filter(map, keep(_, _)) ==
    [k \in {k \in DOMAIN map : keep(k, map[k])} |-> map[k]]

\* variant: the room object is kept among the players
capturePlayers_mut(objects, clientid) ==
    LET keep(objectid, object) == objectid # clientid IN Filter(objects, keep)

\* resetObjectCaches, line 344: players_cache
capturePlayers(objects, clientid) ==
    LET keep(objectid, object) == objectid # clientid /\ objectid > 0 IN
    Filter(objects, keep)

\* resetObjectCaches, line 345: components_cache
captureComponents(netobjects, clientid) ==
    LET keep(netid, component) == component.ownerid # clientid IN
    Filter(netobjects, keep)

\* resetObjectCaches, line 346: global_cache is the client's list itself
captureGlobal(components) == components

\* the client receives spawns and despawns: any registries, for any local
\* client id; or there is no client
SessionChanges ==
    /\ cap.captures < MaxCaptures
    /\ cap.last # "session"
    /\ \E present \in BOOLEAN, clientid \in ClientIds, objects \in ObjectMaps,
          netobjects \in NetObjectMaps, components \in SingletonLists :
          cap' = [cap EXCEPT !.client = present, !.clientid = clientid,
                             !.objects = objects, !.netobjects = netobjects,
                             !.components = components, !.last = "session"]
    /\ UNCHANGED <<instance, dns, store, jg, meet, aw, idt, gs, ab, vt, rd>>

\* resetObjectCaches(), lines 340-347
Capture ==
    /\ cap.captures < MaxCaptures
    /\ cap' = IF ~cap.client
              THEN [cap EXCEPT !.captures = @ + 1, !.last = "skipped"]
              ELSE [cap EXCEPT
                      !.captures = @ + 1, !.last = "captured",
                      !.players_cache = capturePlayers(cap.objects, cap.clientid),
                      !.components_cache = captureComponents(cap.netobjects, cap.clientid),
                      !.global_cache = captureGlobal(cap.components)]
    /\ UNCHANGED <<instance, dns, store, jg, meet, aw, idt, gs, ab, vt, rd>>

NextCapture ==
    \/ SessionChanges
    \/ Capture

SpecCapture == Init /\ [][NextCapture]_vars

\* ------------------------------------------------- the meeting handlers
\* the classes of the components that spawn in a room
SpawnClasses == {"MeetingHud", "PlayerControl", "GameData"}
Notified(delivered) == [type |-> "player.meeting", arg |-> IF delivered THEN "client" ELSE "noclient"]
Spawned(classname) == [type |-> "component.spawn", arg |-> classname]

\* player.meeting handler, lines 637-640: what each handler that waits for
\* a spawn emits when the component spawns
onNextSpawn(classname, waiting) ==
    IF classname = "MeetingHud"
    THEN [i \in 1..waiting |-> GameStateEvent("Meeting")]
    ELSE <<>>

\* player.meeting handler, lines 633-637: up to
\* `await this.client.wait("component.spawn")`
PlayerMeeting ==
    /\ Len(meet.log) < MaxMeetingEvents
    /\ meet' = IF ~meet.client
               THEN [meet EXCEPT !.log = Append(@, Notified(FALSE))]
               ELSE [meet EXCEPT !.log = Append(@, Notified(TRUE)),
                                 !.waiting = @ + 1]
    /\ UNCHANGED <<instance, dns, store, jg, cap, aw, idt, gs, ab, vt, rd>>

\* a component spawns on the client: every wait("component.spawn") resolves
\* with it, and each handler goes on from line 638
ComponentSpawn ==
    /\ Len(meet.log) < MaxMeetingEvents
    /\ meet.client
    /\ \E classname \in SpawnClasses :
          meet' = [meet EXCEPT !.log = Append(@, Spawned(classname)),
                               !.out = @ \o onNextSpawn(classname, meet.waiting),
                               !.waiting = 0]
    /\ UNCHANGED <<instance, dns, store, jg, cap, aw, idt, gs, ab, vt, rd>>

\* destroy(), lines 945-957: the client is disconnected and dropped; the
\* handlers that wait stay unresolved
MeetingDestroy ==
    /\ meet.client
    /\ meet' = [meet EXCEPT !.client = FALSE]
    /\ UNCHANGED <<instance, dns, store, jg, cap, aw, idt, gs, ab, vt, rd>>

NextMeeting ==
    \/ PlayerMeeting
    \/ ComponentSpawn
    \/ MeetingDestroy

SpecMeeting == Init /\ [][NextMeeting]_vars

\* ---------------------------------------------------------- awaitSpawns()
\* the client ids of the participants of the room
Participants == {1, 2}
\* a spawned component: its class and the client id that owns it
Component(classname, ownerid) == [classname |-> classname, ownerid |-> ownerid]
SpawnedComponents ==
    {Component("GameData", RoomId), Component("MeetingHud", RoomId)}
    \cup {Component("PlayerControl", id) : id \in Participants}

includes(seq, x) == \E i \in 1..Len(seq) : seq[i] = x

\* onSpawn without the loop of lines 810-812
allSpawned_mut(players, playersSpawned) == TRUE

\* onSpawn, lines 810-812: no participant is without a PlayerControl
allSpawned(players, playersSpawned) ==
    \A clientid \in players : includes(playersSpawned, clientid)

\* awaitSpawns, lines 781-788: the call, up to the subscription
AwaitSpawnsCall ==
    /\ aw.at = "idle"
    /\ \E present \in BOOLEAN, players \in SUBSET Participants :
          aw' = IF ~present
                THEN [aw EXCEPT !.at = "resolved", !.client = FALSE,
                                !.resolved = <<FALSE>>]
                ELSE [aw EXCEPT !.at = "listening", !.players = players,
                                !.listener = TRUE]
    /\ UNCHANGED <<instance, dns, store, jg, cap, meet, idt, gs, ab, vt, rd>>

\* onSpawn, lines 788-816: a component spawns on the client
\* the call listens to
OnSpawn ==
    /\ aw.at # "idle"
    /\ Len(aw.log) < MaxSpawns
    /\ \E component \in SpawnedComponents :
          LET logged == [aw EXCEPT !.log = Append(@, component)]
              gamedata == aw.gamedataSpawned \/ component.classname = "GameData"
              spawned == IF component.classname = "PlayerControl"
                         THEN Append(aw.playersSpawned, component.ownerid)
                         ELSE aw.playersSpawned
              seen == [logged EXCEPT !.gamedataSpawned = gamedata,
                                     !.playersSpawned = spawned]
          IN  aw' = IF ~aw.listener \/ ~aw.client THEN logged
                    ELSE IF gamedata /\ allSpawned(aw.players, spawned)
                    THEN [seen EXCEPT !.listener = FALSE, !.at = "resolved",
                                      !.resolved = Append(@, TRUE)]
                    ELSE seen
    /\ UNCHANGED <<instance, dns, store, jg, cap, meet, idt, gs, ab, vt, rd>>

\* a participant joins or leaves the room: client.players changes
ParticipantsChange ==
    /\ aw.at = "listening"
    /\ aw.client
    /\ \E id \in Participants :
          aw' = [aw EXCEPT !.players = IF id \in @ THEN @ \ {id} ELSE @ \cup {id}]
    /\ UNCHANGED <<instance, dns, store, jg, cap, meet, idt, gs, ab, vt, rd>>

\* destroy(), lines 945-957: this.client becomes undefined
AwaitDestroy ==
    /\ aw.at = "listening"
    /\ aw.client
    /\ aw' = [aw EXCEPT !.client = FALSE]
    /\ UNCHANGED <<instance, dns, store, jg, cap, meet, idt, gs, ab, vt, rd>>

NextSpawns ==
    \/ AwaitSpawnsCall
    \/ OnSpawn
    \/ ParticipantsChange
    \/ AwaitDestroy

SpecSpawns == Init /\ [][NextSpawns]_vars

\* ---------------------------------------- the token and the endpoints
\* the endpoint a Redirect names: none of the region's
RedirectedTo == MaxServers + 1
\* an identification: the endpoint it goes to and the endpoint its token
\* was acquired for
Identify(endpoint, tokenFor) == [endpoint |-> endpoint, tokenFor |-> tokenFor]

\* doJoin, lines 240-241 and 269-270
rotate(i) == [i EXCEPT !.server = (@ + 1) % Len(i.master), !.attempt = @ + 1]

\* joinGame, lines 190-194: the token is acquired for the endpoint of the
\* Redirect and the client connects and identifies there with it
redirected(i) ==
    [i EXCEPT !.tokenFor = RedirectedTo,
              !.log = Append(@, Identify(RedirectedTo, RedirectedTo))]

\* initialize(), lines 447-458: the endpoints, the first index and the
\* token, acquired for master[server]
IdentifyInitialize ==
    /\ idt.at = "idle"
    /\ \E n \in 1..MaxServers : \E r \in 0..(n - 1) :
          idt' = [idt EXCEPT !.at = "warmup", !.master = [k \in 1..n |-> k],
                             !.server = r, !.tokenFor = r + 1]
    /\ UNCHANGED <<instance, dns, store, jg, cap, meet, aw, gs, ab, vt, rd>>

\* initialSpawn, lines 837-848, or the rejoin of doJoin, lines 259-266:
\* connect to master[server] and identify with this.authToken; then the
\* attempt fails and doJoin rotates, or the join is answered, with a
\* Redirect or without
IdentifyAttempt ==
    /\ idt.at \in {"warmup", "rejoin"}
    /\ idt.attempt < max_attempts
    /\ Len(idt.log) + 2 <= MaxIdentifies
    /\ LET sent == [idt EXCEPT !.log = Append(@, Identify(idt.master[idt.server + 1],
                                                         idt.tokenFor))]
           next == IF idt.at = "warmup" THEN "rejoin" ELSE "joined"
       IN  \E outcome \in {"retry", "joined", "redirect"} :
              idt' = CASE outcome = "retry" -> rotate(sent)
                       [] outcome = "joined" -> [sent EXCEPT !.at = next]
                       [] outcome = "redirect" -> [redirected(sent) EXCEPT !.at = next]
    /\ UNCHANGED <<instance, dns, store, jg, cap, meet, aw, gs, ab, vt, rd>>

\* game.end and player.sethost handlers, lines 513-520 and 540-542:
\* disconnect and doJoin() again, from attempt 0
IdentifyAgain ==
    /\ idt.at = "joined"
    /\ Len(idt.log) + 2 <= MaxIdentifies
    /\ idt' = [idt EXCEPT !.at = "rejoin", !.attempt = 0]
    /\ UNCHANGED <<instance, dns, store, jg, cap, meet, aw, gs, ab, vt, rd>>

NextIdentify ==
    \/ IdentifyInitialize
    \/ IdentifyAttempt
    \/ IdentifyAgain

SpecIdentify == Init /\ [][NextIdentify]_vars

\* ---------------------------------------------- the game-state handlers
\* meetinghud.votingcomplete handler, lines 659-668: what it emits before
\* its delay, for no one ejected (NoPlayer), or a player with or without data
votingComplete(ejected) ==
    IF ejected # NoPlayer /\ ejected.data
    THEN <<PlayerFlagsEvent(ejected.id, "IsDead", TRUE)>>
    ELSE <<>>

\* game.start handler, lines 508-511; the room starts a game from the lobby
GameStart ==
    /\ Len(gs.out) < MaxGameEvents
    /\ ~gs.started
    /\ gs' = [gs EXCEPT !.last = "game.start", !.started = TRUE,
                        !.out = Append(@, GameStateEvent("Game"))]
    /\ UNCHANGED <<instance, dns, store, jg, cap, meet, aw, idt, ab, vt, rd>>

\* game.end handler, line 514: the emission, before the handler disconnects
GameEndEmit ==
    /\ Len(gs.out) < MaxGameEvents
    /\ gs.started
    /\ gs' = [gs EXCEPT !.last = "game.end", !.started = FALSE,
                        !.out = Append(@, GameStateEvent("Lobby"))]
    /\ UNCHANGED <<instance, dns, store, jg, cap, meet, aw, idt, ab, vt, rd>>

\* meetinghud.votingcomplete handler, lines 656-669: up to
\* `await sleep(7000)`
VotingComplete ==
    /\ gs.started
    /\ \E ejected \in PlayerRefs :
          /\ Len(gs.out) + Len(votingComplete(ejected)) + gs.pending < MaxGameEvents
          /\ gs' = [gs EXCEPT !.last = "meetinghud.votingcomplete",
                              !.pending = @ + 1,
                              !.out = @ \o votingComplete(ejected)]
    /\ UNCHANGED <<instance, dns, store, jg, cap, meet, aw, idt, ab, vt, rd>>

\* meetinghud.votingcomplete handler, lines 669-670: the delay is over
VotingDelayOver ==
    /\ gs.pending > 0
    /\ gs' = [gs EXCEPT !.last = "sleep",
                        !.pending = @ - 1,
                        !.out = Append(@, GameStateEvent("Game"))]
    /\ UNCHANGED <<instance, dns, store, jg, cap, meet, aw, idt, ab, vt, rd>>

NextGameState ==
    \/ GameStart
    \/ GameEndEmit
    \/ VotingComplete
    \/ VotingDelayOver

SpecGameState == Init /\ [][NextGameState]_vars

\* ------------------------------- a warmup join abandoned at its timeout
\* the joinGame call of the first attempt and that of the next attempt
JoinCalls == {"first", "second"}
\* an operation on the client: who called it, and whether the first
\* attempt had been abandoned by then
Act(who, op, abandoned) == [who |-> who, op |-> op, late |-> abandoned]
Acted(a, who, op) == [a EXCEPT !.acts = Append(@, Act(who, op, a.abandoned))]
At(a, who, pos) == [a EXCEPT !.calls[who] = pos]

\* joinGame, lines 179-201: the call `who` resumes from waitPayload with a
\* payload of the given tag
answered(a, who, tag) ==
    CASE tag = "JoinedGame" -> At(a, who, "returned")
      [] tag = "JoinGame" -> At(a, who, "thrown")
      [] tag = "Redirect" -> [Acted(At(a, who, "disconnect"), who, "disconnect")
                                 EXCEPT !.redirects = @ + 1]

\* initialSpawn, line 865: joinGame is called and raced with sleep(5000);
\* joinGame, lines 159-170, sends the join and waits for its answer
AbandonJoin ==
    /\ ab.at = "idle"
    /\ ab' = [Acted(At(ab, "first", "wait"), "first", "send") EXCEPT !.at = "race"]
    /\ UNCHANGED <<instance, dns, store, jg, cap, meet, aw, idt, gs, vt, rd>>

\* the server answers a join: every joinGame waiting on the client
\* resumes with the payload; a wait left behind by an abandoned call
\* resolves with it as well, unless the disconnect of the retry dropped it
AbandonPayload ==
    /\ \E who \in JoinCalls : ab.calls[who] = "wait"
    /\ Len(ab.acts) + 2 <= MaxClientOps
    /\ \E tag \in {"JoinedGame", "JoinGame", "Redirect"}, dropped \in BOOLEAN :
          /\ tag = "Redirect" => ab.redirects < MaxRedirects
          /\ dropped => (ab.abandoned /\ ab.calls["first"] = "wait" /\ ab.calls["second"] = "wait")
          /\ LET a1 == IF ab.calls["first"] = "wait" /\ ~dropped
                       THEN answered(ab, "first", tag) ELSE ab
                 a2 == IF ab.calls["second"] = "wait"
                       THEN answered(a1, "second", tag) ELSE a1
                 racing == IF ab.at = "race" THEN "first" ELSE "second"
             IN  ab' = IF a2.calls[racing] \in {"returned", "thrown"}
                       THEN [a2 EXCEPT !.at = "done"]
                       ELSE a2
    /\ UNCHANGED <<instance, dns, store, jg, cap, meet, aw, idt, gs, vt, rd>>

\* joinGame, lines 191-194: the steps of a call that follows a Redirect:
\* the disconnect resolves and the token is requested; the token arrives
\* and connect is called; the connect resolves and joinGame is called
\* again, which sends the join and waits
AbandonRedirect ==
    /\ Len(ab.acts) < MaxClientOps
    /\ \E who \in JoinCalls :
          ab' = CASE ab.calls[who] = "disconnect" -> At(ab, who, "token")
                  [] ab.calls[who] = "token" -> Acted(At(ab, who, "connect"), who, "connect")
                  [] ab.calls[who] = "connect" -> Acted(At(ab, who, "wait"), who, "send")
                  [] OTHER -> ab
    /\ ab' # ab
    /\ UNCHANGED <<instance, dns, store, jg, cap, meet, aw, idt, gs, vt, rd>>

\* initialSpawn, lines 865-869, and doJoin, lines 234-237: sleep(5000)
\* wins the race, initialSpawn returns TimedOut and doJoin disconnects
AbandonTimeout ==
    /\ ab.at = "race"
    /\ Len(ab.acts) < MaxClientOps
    /\ ab' = [Acted([ab EXCEPT !.abandoned = TRUE], "doJoin", "disconnect")
                 EXCEPT !.at = "retry_disconnect"]
    /\ UNCHANGED <<instance, dns, store, jg, cap, meet, aw, idt, gs, vt, rd>>

\* doJoin, lines 240-253, and initialSpawn, lines 845-865: the next
\* attempt connects, identifies and calls joinGame on the same client
AbandonRetry ==
    /\ Len(ab.acts) < MaxClientOps
    /\ ab' = CASE ab.at = "retry_disconnect" ->
                    [Acted(ab, "doJoin", "connect") EXCEPT !.at = "retry_connect"]
               [] ab.at = "retry_connect" ->
                    [Acted(ab, "doJoin", "identify") EXCEPT !.at = "retry_identify"]
               [] ab.at = "retry_identify" ->
                    [Acted(At(ab, "second", "wait"), "second", "send") EXCEPT !.at = "retry_race"]
               [] OTHER -> ab
    /\ ab' # ab
    /\ UNCHANGED <<instance, dns, store, jg, cap, meet, aw, idt, gs, vt, rd>>

NextAbandon ==
    \/ AbandonJoin
    \/ AbandonPayload
    \/ AbandonRedirect
    \/ AbandonTimeout
    \/ AbandonRetry

SpecAbandon == Init /\ [][NextAbandon]_vars

\* ------------------------------------ doJoin, every awaited operation settling
\* the step of chain p from the await it is suspended at
ChainStep(p) ==
    \/ IsConnect(p) \/ IsIdentify(p) \/ IsJoin(p) \/ IsSpawns(p)
    \/ IsAnnounce(p) \/ IsDisconnect(p) \/ DoJoinSpawned(p) \/ DoJoinRetry(p)
    \/ RjConnect(p) \/ RjIdentify(p) \/ RjJoin(p)

\* initialize() and the doJoin it calls, left alone by destroy() calls from
\* outside
NextDoJoin ==
    \/ Initialize
    \/ InitResolved
    \/ InitToken
    \/ ChainStep("init")
    \/ DoJoinReturn("init")
    \/ Caught("init")
    \/ DestroyDone("init")

\* every operation doJoin awaits settles at some time
SpecSettles == Init /\ [][NextDoJoin]_vars /\ WF_vars(ChainStep("init"))

\* ------------------------------------------ joinGame and its Redirects
Endpoints == {HomeEndpoint} \cup RedirectEndpoints

\* joinGame, lines 136-170: the call on an identified client that is in no
\* other room; the join is sent and the answer awaited
RedirectCall ==
    /\ rd.at = "idle"
    /\ \E code \in Codes, doSpawn \in BOOLEAN, token \in Tokens :
          rd' = [rd EXCEPT !.at = "wait", !.code = code, !.doSpawn = doSpawn,
                           !.endpoint = HomeEndpoint, !.authToken = token]
    /\ UNCHANGED <<instance, dns, store, jg, cap, meet, aw, idt, gs, ab, vt>>

\* joinGame, lines 179-201: the answer to the join.  A Redirect is
\* followed whatever the number of Redirects followed before.
RedirectAnswer ==
    /\ rd.at = "wait"
    /\ \/ rd' = [rd EXCEPT !.at = "thrown"]
       \/ rd' = [rd EXCEPT !.at = "returned"]
       \/ \E ep \in Endpoints \ {rd.endpoint} :
             rd' = [rd EXCEPT !.at = "disconnect", !.target = ep,
                              !.followed = IF @ < MaxFollowed THEN @ + 1 ELSE @]
    /\ UNCHANGED <<instance, dns, store, jg, cap, meet, aw, idt, gs, ab, vt>>

\* joinGame, lines 191-194: the disconnect resolves and the token is
\* requested; the token arrives and connect is called; the connect
\* settles and joinGame is called again, which sends the join and waits
RedirectFollow ==
    /\ \/ /\ rd.at = "disconnect"
          /\ rd' = [rd EXCEPT !.at = "token"]
       \/ /\ rd.at = "token"
          /\ \E token \in Tokens : rd' = [rd EXCEPT !.at = "connect", !.authToken = token]
       \/ /\ rd.at = "connect"
          /\ \/ rd' = [rd EXCEPT !.at = "thrown"]
             \/ rd' = [rd EXCEPT !.at = "wait", !.endpoint = rd.target]
    /\ UNCHANGED <<instance, dns, store, jg, cap, meet, aw, idt, gs, ab, vt>>

NextRedirects ==
    \/ RedirectCall
    \/ RedirectAnswer
    \/ RedirectFollow

\* every operation joinGame awaits settles at some time
SpecRedirects == Init /\ [][NextRedirects]_vars /\ WF_vars(NextRedirects)

\* --------------------------------------------- the consumer's players
\* The me and clients entries of the Vuex store and the socket events that
\* change their uuid and ventid.  vt.event is the last event received.
StoreUuids == {"u1", "u2", "u3"}
VentIds == {-1} \cup Vents
VentReceiving == vt.delivered < MaxVentEvents
VentReceived(st, type, uuid, ventid) ==
    [st EXCEPT !.delivered = @ + 1,
               !.event = [type |-> type, uuid |-> uuid, ventid |-> ventid]]

\* the value of payload[name]: undefined for a property the object lacks
property(payload, name) ==
    IF name \in DOMAIN payload THEN payload[name] ELSE Undefined

\* clients.findIndex(c => c.uuid === uuid), as a 1-based index; 0 for -1
findIndex(clients, uuid) ==
    IF \E i \in 1..Len(clients) : clients[i].uuid = uuid
    THEN CHOOSE i \in 1..Len(clients) :
            /\ clients[i].uuid = uuid
            /\ \A j \in 1..(i - 1) : clients[j].uuid # uuid
    ELSE 0

\* mutation setVent, lines 80-82
setVent(st, ventid) ==
    [st EXCEPT !.me.ventid = ventid]

\* mutation setVentOf, lines 83-89
setVentOf(st, payload) ==
    LET index == findIndex(st.clients, property(payload, "uuid")) IN
    IF index # 0
    THEN [st EXCEPT !.clients[index].ventid = property(payload, "ventid")]
    ELSE st

\* store action socket_setventof, lines 183-189
socket_setventof(st, payload) ==
    IF payload.uuid = st.me.uuid
    THEN setVent(st, payload.ventid)
    ELSE setVentOf(st, [uuid |-> payload.uuid, venstid |-> payload.ventid])

\* the consumer receives SetVentOf
SocketSetVentOf ==
    /\ VentReceiving
    /\ \E uuid \in StoreUuids, ventid \in VentIds :
          vt' = VentReceived(socket_setventof(vt, [uuid |-> uuid, ventid |-> Number(ventid)]),
                             "setventof", uuid, ventid)
    /\ UNCHANGED <<instance, dns, store, jg, cap, meet, aw, idt, gs, ab, rd>>

\* store action socket_setuuid, lines 148-150, and mutation setUuid,
\* lines 59-61
VentSetUuid ==
    /\ VentReceiving
    /\ \E uuid \in StoreUuids :
          vt' = VentReceived([vt EXCEPT !.me.uuid = uuid], "setuuid", uuid, -1)
    /\ UNCHANGED <<instance, dns, store, jg, cap, meet, aw, idt, gs, ab, rd>>

\* store action socket_addclient, lines 151-161, and mutation addClient,
\* lines 62-64: the client is appended with the ventid of the payload
SocketAddClient ==
    /\ VentReceiving
    /\ Len(vt.clients) < MaxStoreClients
    /\ \E uuid \in StoreUuids, ventid \in VentIds :
          vt' = VentReceived([vt EXCEPT !.clients =
                                 Append(@, [uuid |-> uuid, ventid |-> Number(ventid)])],
                             "addclient", uuid, ventid)
    /\ UNCHANGED <<instance, dns, store, jg, cap, meet, aw, idt, gs, ab, rd>>

\* store action socket_removeclient, lines 173-175, and mutation
\* removeClient, lines 68-70
SocketRemoveClient ==
    /\ VentReceiving
    /\ \E uuid \in StoreUuids :
          vt' = VentReceived([vt EXCEPT !.clients =
                                 SelectSeq(@, LAMBDA c : c.uuid # uuid)],
                             "removeclient", uuid, -1)
    /\ UNCHANGED <<instance, dns, store, jg, cap, meet, aw, idt, gs, ab, rd>>

NextVent ==
    \/ SocketSetVentOf
    \/ VentSetUuid
    \/ SocketAddClient
    \/ SocketRemoveClient

SpecVent == Init /\ [][NextVent]_vars

\* ================================================================ claims
Last(seq) == seq[Len(seq)]
Requests == {"connect", "identify", "join"}
Issues(ops, kinds) == \E i \in 1..Len(ops) : ops[i] \in kinds
Retryable == {"FailedToConnect", "TimedOut"}
NumOutcome(code) == Cardinality({i \in 1..Len(outLog) : outLog[i] = code})

\* every warmup connect after the first used the index of the connect
\* before it, advanced by one modulo the number of endpoints
Rotated ==
    \A i \in 1..(Len(connLog) - 1) : connLog[i + 1] = (connLog[i] + 1) % Len(master)

\* C1: a doJoin that starts without caches and returns (the backend not
\* being destroyed meanwhile) after warmup attempts that all ended
\* FailedToConnect or TimedOut has made exactly max_attempts warmup
\* connects, each on the endpoint index one past (modulo the number of
\* endpoints) that of the connect before, has advanced the index once more
\* after the last, and has returned false from the budget check.
C1_RetryableWarmupsExhaustBudget ==
    (/\ ret["init"] \notin {0, 207}
     /\ \A i \in 1..Len(outLog) : outLog[i] \in Retryable)
    => /\ ret["init"] = 212
       /\ Len(connLog) = max_attempts
       /\ Len(outLog) = max_attempts
       /\ Rotated
       /\ server = (Last(connLog) + 1) % Len(master)

C1_Witness ==
    /\ ret["init"] = 212
    /\ Len(connLog) = max_attempts
    /\ Len(master) = 2
    /\ \E i \in 1..Len(outLog) : outLog[i] = "FailedToConnect"
    /\ \E i \in 1..Len(outLog) : outLog[i] = "TimedOut"
    /\ \A i \in 1..Len(outLog) : outLog[i] \in Retryable

\* the step resumed a warmup or rejoin await with a retryable failure: the
\* connect or identify threw, or the identify, join or spawn wait timed out
RetryableFailure(g) ==
    /\ g.at \in {"is_connect", "is_identify", "is_join", "is_spawns",
                 "rj_connect", "rj_identify"}
    /\ g.outcome \in {"throw", "timeout"}

\* C2: a step that handles a retryable failure emits no Error with
\* fatal=true, and while every warmup attempt so far failed retryably an
\* Error with fatal=true is emitted only once the attempt counter has
\* reached the budget.
C2_RetryableIsNonFatal ==
    [][/\ RetryableFailure(got') => NumFatal(emitted') = 0
       /\ (/\ got'.proc = "init"
           /\ got'.at \notin {"call", "in_resolve", "thrown"}
           /\ \A i \in 1..Len(outLog') : outLog'[i] \in Retryable
           /\ NumFatal(emitted') > 0)
          => attempt'["init"] >= max_attempts]_vars

\* C3: once an Error with fatal=true has been emitted, no step issues a
\* connect, identify or join request.
C3_FatalStopsRequests ==
    [][count.fatal > 0 => ~Issues(issued', Requests)]_vars

\* C4: once a warmup attempt has ended GameNotFound or FailedToJoin, doJoin
\* returns false from the branch of that outcome having emitted exactly
\* one Error with fatal=true for it (every other fatal Error so far is the
\* report of an earlier connect failure), with the attempt counter and
\* the endpoint index as they were when the attempt connected, and no
\* further warmup or rejoin connect follows.
C4_WarmupFatalOutcome ==
    (/\ outLog # <<>>
     /\ Last(outLog) \in {"GameNotFound", "FailedToJoin"}
     /\ pc["init"] # "dj_spawned")
    => /\ pc["init"] \in {"dj_return", "done"}
       /\ ret["init"] = (IF Last(outLog) = "GameNotFound" THEN 225 ELSE 231)
       /\ count.fatal = 1 + NumOutcome("FailedToConnect")
       /\ attempt["init"] = Len(outLog) - 1
       /\ Len(connLog) = Len(outLog)
       /\ server = Last(connLog)

C4_Witness ==
    /\ pc["init"] = "done"
    /\ ret["init"] = 231
    /\ Len(outLog) = 3
    /\ outLog[1] = "TimedOut"
    /\ Len(master) = 2

\* C5: whenever a chain has finished after its doJoin returned false from
\* the exhausted budget, a fatal Error has been reported, the destroyed
\* flag is set and the client holds no connection.
C5_ExhaustionDestroys ==
    \A p \in Joiners :
        (pc[p] = "done" /\ ret[p] = 212)
        => (count.fatal > 0 /\ destroyed /\ ~connected)

\* C6: the step in which the join request of the rejoin phase is answered
\* with a join error emits an Error with fatal=true and issues no further
\* request.
C6_RejoinJoinErrorIsFatal ==
    [][(got'.at = "rj_join" /\ got'.outcome \in {"error", "notfound"})
       => (NumFatal(emitted') >= 1 /\ ~Issues(issued', Requests))]_vars

AllFail(outs) == \A i \in 1..AuthTries : ~outs[i].ok
FirstSuccess(outs) == CHOOSE i \in 1..AuthTries : outs[i].ok /\ \A j \in 1..(i - 1) : ~outs[j].ok

\* what tryGetAuthToken returns, but for the meaning of a returned 0
ReturnsFirstSuccess(t) ==
    /\ t.calls \in 1..AuthTries
    /\ AllFail(t.outs) => (t.token = 0 /\ t.calls = AuthTries)
    /\ ~AllFail(t.outs) => /\ t.calls = FirstSuccess(t.outs)
                           /\ t.token = t.outs[FirstSuccess(t.outs)].token

\* C7 (as stated): tryGetAuthToken returns after at most 5 getAuthToken
\* calls with the token of the first call that succeeded, and it returns 0
\* if and only if all 5 calls failed.
C7_ZeroIffAllFail ==
    tok.state = "returned"
    => /\ ReturnsFirstSuccess(tok)
       /\ tok.token = 0 <=> AllFail(tok.outs)

\* C7 (amended): tryGetAuthToken returns after at most 5 getAuthToken
\* calls, as many as it took to reach the first success; it returns the
\* token of that first success, which may itself be 0, and it returns 0
\* after 5 calls when all 5 failed.
C7_FirstSuccessOrZero ==
    tok.state = "returned" => ReturnsFirstSuccess(tok)

C7_Witness ==
    /\ tok.state = "returned"
    /\ tok.calls = 3
    /\ ~tok.outs[1].ok /\ ~tok.outs[2].ok
    /\ tok.outs[3] = [ok |-> TRUE, token |-> 0]
    /\ tok.token = 0

\* C8: the destroyed flag, once set, stays set, no step taken while it is
\* set issues a request, and a destroy() call made while another destroy()
\* awaits its disconnect issues no client operation.
C8_DestroyIdempotent ==
    [][/\ destroyed => destroyed'
       /\ destroyed => ~Issues(issued', Requests)
       /\ (/\ got'.at = "call" /\ got'.outcome = "destroy"
           /\ \E q \in Procs : pc[q] = "destroy_disc")
          => issued' = <<>>]_vars

\* C9: a settings-sync notification equal to the mirror emits nothing and
\* leaves the mirror as it is; one that differs sets the mirror to the
\* notified values and emits exactly one SettingsUpdate carrying them.
C9_SettingsUpdateOnlyOnChange ==
    [][got'.at = "player.syncsettings"
       => IF got'.outcome = settings
          THEN emitted' = <<>> /\ settings' = settings
          ELSE /\ settings' = got'.outcome
               /\ emitted' = <<SettingsUpdateEvent(got'.outcome)>>]_vars

\* initialize has completed on a region of two endpoints after a first
\* warmup attempt that timed out at identify and a second attempt, and a
\* rejoin, that succeeded
TimeoutThenSuccess ==
    /\ pc["init"] = "done"
    /\ ret["init"] = 337
    /\ Len(master) = 2
    /\ outLog = <<"TimedOut", "None">>
    /\ firstAt = "is_identify"
    /\ attempt["init"] = 1
    /\ pc["ext1"] = "idle"

\* C10 (as stated): after such a run the consumer has received exactly one
\* SettingsUpdate and no Error event.
C10_NoErrorOnRetry ==
    TimeoutThenSuccess
    => (count.settings = 1 /\ count.fatal + count.nonfatal = 0)

\* C10 (amended): after such a run the consumer has received exactly one
\* SettingsUpdate, exactly one Error with fatal=false (the report of the
\* timed-out attempt) and no Error with fatal=true; and the step of a
\* warmup that takes the synced settings over emits exactly one
\* SettingsUpdate, carrying those settings.
C10_OneNonFatalErrorOnRetry ==
    /\ [](TimeoutThenSuccess
          => (/\ count.settings = 1
              /\ count.nonfatal = 1
              /\ count.fatal = 0
              /\ connLog = <<connLog[1], (connLog[1] + 1) % 2>>))
    /\ [][(got'.at = "is_spawns" /\ settings' # settings)
          => /\ NumSettingsUpdate(emitted') = 1
             /\ \E i \in 1..Len(emitted') : emitted'[i] = SettingsUpdateEvent(settings')]_vars

C10_Witness ==
    /\ TimeoutThenSuccess
    /\ settings = [map |-> 1, crewmateVision |-> 2]
    /\ count.nonfatal = 1

\* the keys under which a map holds entities
Entities(map) == {k \in DOMAIN map : map[k] # Hole}
\* the positions at which a list holds components
Components(list) == {i \in 1..Len(list) : list[i] # Hole}

\* C11 (as stated): after the reattachment the session holds exactly the
\* players and components of the snapshot, under their keys, and a
\* singleton list as long as the snapshot's with holes where the snapshot
\* has holes, and each of these entities refers to the new session.
C11_ExactlySnapshot ==
    re.phase = "reattached"
    => /\ DOMAIN re.objects = Entities(re.players_cache)
       /\ DOMAIN re.netobjects = Entities(re.components_cache)
       /\ Len(re.components) = Len(re.global_cache)
       /\ Components(re.components) = Components(re.global_cache)
       /\ \A k \in DOMAIN re.objects : re.objects[k] = NewSession
       /\ \A k \in DOMAIN re.netobjects : re.netobjects[k] = NewSession
       /\ \A i \in Components(re.components) : re.components[i] = NewSession

\* C11 (amended): after the reattachment every player and component of the
\* snapshot is registered in the session under its key, and every
\* component of the snapshot's singleton list sits at its index, each
\* referring to the new session; what the session held under other keys
\* and at the other positions is as it was, so the list is as long as the
\* longer of the session's list and the snapshot's list up to its last
\* component.
C11_SnapshotOverSession ==
    re.phase = "reattached"
    => /\ DOMAIN re.objects = Entities(re.players_cache) \cup DOMAIN re.was.objects
       /\ DOMAIN re.netobjects = Entities(re.components_cache) \cup DOMAIN re.was.netobjects
       /\ \A k \in Entities(re.players_cache) : re.objects[k] = re.players_cache[k]
       /\ \A k \in Entities(re.components_cache) : re.netobjects[k] = re.components_cache[k]
       /\ \A i \in Components(re.global_cache) :
             i <= Len(re.components) /\ re.components[i] = re.global_cache[i]
       /\ \A k \in Entities(re.players_cache) : re.players_cache[k] = NewSession
       /\ \A k \in Entities(re.components_cache) : re.components_cache[k] = NewSession
       /\ \A i \in Components(re.global_cache) : re.global_cache[i] = NewSession
       /\ \A k \in DOMAIN re.objects \ Entities(re.players_cache) :
             re.objects[k] = re.was.objects[k]
       /\ \A k \in DOMAIN re.netobjects \ Entities(re.components_cache) :
             re.netobjects[k] = re.was.netobjects[k]
       /\ \A i \in (1..Len(re.components)) \ Components(re.global_cache) :
             re.components[i] = (IF i <= Len(re.was.components)
                                 THEN re.was.components[i] ELSE Hole)
       /\ Len(re.components) =
             Max({Len(re.was.components)} \cup Components(re.global_cache))

\* a snapshot whose list ends in a hole has been put into a session whose
\* list was shorter, and the session held an entity of its own
C11_Witness ==
    /\ re.phase = "reattached"
    /\ Len(re.global_cache) = 2
    /\ re.global_cache[1] = NewSession
    /\ re.global_cache[2] = Hole
    /\ re.was.components = <<>>
    /\ Len(re.components) = 1
    /\ DOMAIN re.players_cache = {2}
    /\ DOMAIN re.was.objects = {1}
    /\ DOMAIN re.objects = {1, 2}

\* C12: in every state the entities of the snapshot refer to one and the
\* same session: the reattachment rebinds all of them in the step that
\* rebinds the first, and that step emits nothing before the last.
C12_ReattachAtomic ==
    /\ [](re.phase # "idle"
          => \E s \in {OldSession, NewSession} :
                /\ \A k \in Entities(re.players_cache) : re.players_cache[k] = s
                /\ \A k \in Entities(re.components_cache) : re.components_cache[k] = s
                /\ \A i \in Components(re.global_cache) : re.global_cache[i] = s)
    /\ [][re.phase' = "reattached" /\ re.phase = "joined"
          => \A i \in 1..Len(emitted') : emitted'[i].type = "HostChange"]_vars

C12_Witness ==
    /\ re.phase = "reattached"
    /\ Entities(re.players_cache) # {}
    /\ Entities(re.components_cache) # {}
    /\ Components(re.global_cache) # {}

Rejoiners == {"end", "host"}
NoneNamesSelf(evs) == \A i \in 1..Len(evs) : evs[i] # HostChangeEvent("self")

\* C13: when a handler's rejoin has ended without success, or the backend
\* is destroyed, no snapshot is held any more.
C13_SnapshotDiscarded ==
    /\ \A p \in Rejoiners : (pc[p] = "done" /\ ret[p] \notin {0, 337}) => ~cached
    /\ destroyed => ~cached

C15_SoleHostDestroys ==
    [][/\ (got'.at = "notify" /\ got'.outcome = "sethost.sole")
          => (cached' = cached /\ issued' = <<"disconnect">>)
       /\ (got'.proc = "host" /\ got'.at = "sh_disc_sole")
          => (destroyed' /\ ~connected' /\ cached' = cached)
       /\ destroyed => ~Issues(issued', {"connect", "join"})]_vars

\* C16: the step that handles a murder notification emits exactly one
\* event, PlayerFlags(victim's name, IsDead, true), when the victim has
\* data, and no event when there is no victim or the victim has no data;
\* it never emits an event for the killer.
C16_MurderFlagsVictim ==
    [][got'.at = "player.murder"
       => LET victim == got'.outcome.n.victim IN
          /\ ~got'.outcome.thrown
          /\ emitted' = (IF victim.id # 0 /\ victim.data
                         THEN <<PlayerFlagsEvent(victim.id, "IsDead", TRUE)>>
                         ELSE <<>>)]_vars

\* a murder by a killer with data of a victim with data has been handled
C16_Witness ==
    /\ got.at = "player.murder"
    /\ got.outcome.n.player = [id |-> 1, data |-> TRUE]
    /\ got.outcome.n.victim = [id |-> 2, data |-> TRUE]
    /\ emitted = <<PlayerFlagsEvent(2, "IsDead", TRUE)>>

PlayerKinds ==
    {"player.move", "player.snapto", "player.setcolor", "player.entervent",
     "player.exitvent", "security.cameras.join", "security.cameras.leave"}
Dataless(player) == player.id = 0 \/ ~player.data

\* C17: the step that handles a notification about a player who is absent
\* or has no data emits no event and does not throw; for a list of
\* impostors there is one event per listed player with data, none for the
\* others; and a host change to a player without data emits no event.
C17_DatalessDropped ==
    [][/\ (got'.at \in PlayerKinds /\ Dataless(got'.outcome.n.player))
          => (emitted' = <<>> /\ ~got'.outcome.thrown)
       /\ got'.at = "player.setimpostors"
          => LET imps == got'.outcome.n.impostors IN
             /\ ~got'.outcome.thrown
             /\ Len(emitted') = Cardinality({i \in 1..Len(imps) : ~Dataless(imps[i])})
             /\ \A i \in 1..Len(emitted') : emitted'[i].type = "PlayerFlags"
       /\ (got'.at = "notify" /\ got'.outcome = "sethost.nodata")
          => emitted' = <<>>]_vars

\* a list of impostors of which the first has no data has been handled
C17_Witness ==
    /\ got.at = "player.setimpostors"
    /\ got.outcome.n.impostors = <<[id |-> 1, data |-> FALSE], [id |-> 2, data |-> TRUE]>>
    /\ emitted = <<PlayerFlagsEvent(2, "IsImpostor", TRUE)>>

\* C18: no connect is called while the previous connection is up: a step
\* that calls client.connect either has called, and awaited,
\* client.disconnect before it, or runs when the client is disconnected
\* (the disconnect it resumes from included).
C18_ConnectAfterDisconnect ==
    [][\A i \in 1..Len(issued') :
          issued'[i] = "connect"
          => (~connected' \/ \E j \in 1..(i - 1) : issued'[j] = "disconnect")]_vars

\* initialize() has ended with one fatal Error and nothing else: no client,
\* no connection, no subscription, no endpoint ever connected to
LookupFailed ==
    /\ pc["init"] = "done"
    /\ count = [fatal |-> 1, nonfatal |-> 0, settings |-> 0]
    /\ ~client /\ ~handlers /\ ~connected /\ connLog = <<>>

\* C19: when the region is unknown or its lookup fails, that step of
\* initialize emits exactly one fatal Error, calls nothing and ends
\* initialize with no client and no subscription; from then on nothing
\* more is emitted, no client is made, and no token, connect, identify or
\* join is requested.
C19_LookupFailureIsFatal ==
    [][/\ (/\ got'.proc = "init"
           /\ \/ got'.at = "call" /\ got'.outcome = "noregion"
              \/ got'.at = "in_resolve" /\ got'.outcome = "throw")
          => /\ emitted' = <<ErrorEvent(TRUE)>>
             /\ issued' = <<>>
             /\ master' = <<>>
             /\ LookupFailed'
       /\ LookupFailed
          => /\ LookupFailed'
             /\ emitted' = <<>>
             /\ ~Issues(issued', {"token", "connect", "identify", "join"})]_vars

\* the lookup of a known region has failed, and a later destroy() has run
C19_Witness ==
    /\ LookupFailed
    /\ master = <<>>
    /\ destroyed
    /\ pc["ext1"] = "done"

\* C20: the step in which initialize catches an exception emits exactly
\* one fatal Error and calls destroy(), which sets the destroyed flag, or
\* awaits the disconnect first, or finds the flag set; initialize resumes
\* from destroy() and ends.
C20_ExceptionIsFatalAndDestroys ==
    [][/\ (got'.proc = "init" /\ got'.at = "thrown")
          => /\ pc["init"] = "thrown"
             /\ emitted' = <<ErrorEvent(TRUE)>>
             /\ count'.fatal = count.fatal + 1
             /\ after'["init"] = "done"
             /\ \/ destroyed /\ pc'["init"] = "destroy_done"
                \/ ~destroyed /\ destroyed' /\ pc'["init"] = "destroy_done"
                \/ ~destroyed /\ ~destroyed' /\ pc'["init"] = "destroy_disc"
                   /\ issued' = <<"disconnect">>
       /\ pc["init"] = "thrown" => pc'["init"] \in {"thrown", "destroy_done", "destroy_disc"}
       /\ (pc["init"] = "destroy_done" /\ after["init"] = "done")
          => pc'["init"] \in {"destroy_done", "done"}]_vars

\* initialize has found no endpoint, the exception of doJoin was caught and
\* the backend destroyed
C20_Witness ==
    /\ got.proc = "init" /\ got.at = "thrown"
    /\ master = <<>>
    /\ emitted = <<ErrorEvent(TRUE)>>
    /\ count.fatal = 1
    /\ destroyed /\ pc["init"] = "destroy_done"

IsPrefix(s, t) == Len(s) <= Len(t) /\ \A i \in 1..Len(s) : t[i] = s[i]
\* the IPv4 endpoints among the lookup results of one call, in order
RECURSIVE Discovered(_)
Discovered(results) ==
    IF results = <<>> THEN <<>>
    ELSE LET ips == Head(results)
             at == {i \in 1..Len(ips) : ips[i].family = 4}
         IN  [i \in 1..Cardinality(at) |->
                 LET k == CHOOSE k \in at : Cardinality({j \in at : j <= k}) = i
                 IN  <<ips[k].address, MatchmakerPort>>]
             \o Discovered(Tail(results))
Returns(c) == dns.calls[c].state # "returned" /\ dns'.calls[c].state = "returned"

\* C21: no step shortens or rewrites a region's entry of the cache; the
\* step in which a resolveMMDNS call for a region returns leaves that entry
\* as the previous entry followed by the IPv4 endpoints the call's lookups
\* found, in order, returns the whole entry, and leaves the entries of the
\* other regions unchanged.
C21_CacheAppendOnly ==
    [][/\ \A r \in Regions : IsPrefix(dns.cache[r], dns'.cache[r])
       /\ \A c \in Resolvers :
             Returns(c)
             => LET call == dns'.calls[c] IN
                /\ dns'.cache[call.region]
                      = dns.cache[call.region] \o Discovered(call.results)
                /\ call.returned = dns'.cache[call.region]
                /\ \A r \in Regions \ {call.region} : dns'.cache[r] = dns.cache[r]]_vars

\* a second call for a region has returned: the entry holds the endpoints
\* of the first call followed by those of the second
C21_Witness ==
    /\ dns.calls[1].state = "returned" /\ dns.calls[2].state = "returned"
    /\ dns.calls[1].region = 1 /\ dns.calls[2].region = 1
    /\ dns.calls[1].returned = <<(<<2, MatchmakerPort>>)>>
    /\ dns.calls[2].returned = <<(<<2, MatchmakerPort>>), <<1, MatchmakerPort>>>>
    /\ dns.cache[1] = dns.calls[2].returned

Session(st) == <<st.uuid, st.joinedRoom, st.name, st.backendModel>>
ErrorReceived(fatal) ==
    /\ store'.delivered = store.delivered + 1
    /\ store'.event = [type |-> "error", fatal |-> fatal]

\* C22: the step in which the consumer receives an Error with fatal=true
\* leaves the uuid empty, joinedRoom false, the name empty and the backend
\* model reset to gameCode '' and NoOp; the step in which it receives an
\* Error with fatal=false leaves these four unchanged.
C22_FatalTearsDown ==
    [][/\ ErrorReceived(TRUE)
          => Session(store') = <<"", FALSE, "", [gameCode |-> "", backendType |-> "NoOp"]>>
       /\ ErrorReceived(FALSE)
          => Session(store') = Session(store)]_vars

\* a non-fatal Error has reached a consumer that is in a room
C22_Witness ==
    /\ store.event = [type |-> "error", fatal |-> FALSE]
    /\ store.joinedRoom /\ store.uuid = "u1" /\ store.name = "n1"
    /\ store.backendModel.gameCode = "ABCDEF"

\* C23: a step in which doJoin counts a failed attempt and retries (every
\* such step but the silent return on "Could not find the game") moves the
\* endpoint index on by exactly one modulo the number of endpoints, and
\* counts exactly one attempt.
C23_RetryRotatesAndCounts ==
    [][\A p \in Joiners :
          (attempt'[p] > attempt[p] /\ ret'[p] # 288)
          => /\ attempt'[p] = attempt[p] + 1
             /\ server' = (server + 1) % Len(master)]_vars

JgActive == jg.at # "idle"
\* the operations a Redirect answer to the join at position i has led to
AfterRedirect(ops, i) ==
    i + 1 <= Len(ops) /\ ops[i].op = "join" /\ ops[i + 1].op = "disconnect"

\* C24: after a Redirect answer to a join request the operations of
\* joinGame are, in this order, the disconnect from the current endpoint,
\* the token request for the Redirect's endpoint, the connect to that
\* endpoint with the token just acquired, and the join request with the
\* code and spawn flag of the first one; and the call settles as the call
\* it made of itself has settled.
C24_RedirectOrder ==
    /\ [](JgActive =>
          \A i \in 1..Len(jg.ops) :
             AfterRedirect(jg.ops, i)
             => /\ jg.ops[i + 1].endpoint = jg.ops[i].endpoint
                /\ i + 2 <= Len(jg.ops)
                   => /\ jg.ops[i + 2].op = "token"
                      /\ jg.ops[i + 2].endpoint \in RedirectEndpoints \ {jg.ops[i].endpoint}
                /\ i + 3 <= Len(jg.ops)
                   => /\ jg.ops[i + 3].op = "connect"
                      /\ jg.ops[i + 3].endpoint = jg.ops[i + 2].endpoint
                /\ i + 4 <= Len(jg.ops)
                   => jg.ops[i + 4] = Op("join", jg.ops[i + 2].endpoint, jg.ops[i].arg))
    /\ [][/\ (JgActive /\ jg.at = "rc_token" /\ jg'.at = "rc_connect" /\ jg.why = "redirect")
             => /\ jg'.ops[Len(jg'.ops)].arg = jg'.authToken
                /\ jg'.tokenFor = jg'.ops[Len(jg'.ops)].endpoint
          /\ (JgActive /\ jg.at \in {"return", "throw"})
             => /\ jg'.result = jg.result
                /\ jg'.at \in {jg.at, IF jg.at = "return" THEN "returned" ELSE "thrown"}]_vars

\* a joinGame with spawning was redirected and its second join succeeded
C24_Witness ==
    /\ jg.at = "returned"
    /\ jg.result = Code(2)
    /\ jg.authToken = 1
    /\ jg.ops = <<Op("join", 1, [code |-> 2, doSpawn |-> TRUE]), Op("disconnect", 1, 0),
                  Op("token", 3, 0), Op("connect", 3, 1),
                  Op("join", 3, [code |-> 2, doSpawn |-> TRUE]), Op("spawn", 3, 0)>>

\* C25: in the state a capture with a client leaves, the player cache has
\* exactly the objects with a positive id other than the local client's,
\* the component cache exactly the networked components not owned by the
\* local client, each under its key, and the singleton cache is the
\* client's singleton list, position by position; a capture without a
\* client leaves the caches as they were.
C25_CapturePartitions ==
    /\ [](cap.last = "captured"
          => /\ DOMAIN cap.players_cache
                   = {k \in DOMAIN cap.objects : k > 0 /\ k # cap.clientid}
             /\ \A k \in DOMAIN cap.players_cache : cap.players_cache[k] = cap.objects[k]
             /\ DOMAIN cap.components_cache
                   = {k \in DOMAIN cap.netobjects : cap.netobjects[k].ownerid # cap.clientid}
             /\ \A k \in DOMAIN cap.components_cache :
                   cap.components_cache[k] = cap.netobjects[k]
             /\ Len(cap.global_cache) = Len(cap.components)
             /\ \A i \in 1..Len(cap.components) : cap.global_cache[i] = cap.components[i])
    /\ [][cap'.last = "skipped"
          => /\ cap'.players_cache = cap.players_cache
             /\ cap'.components_cache = cap.components_cache
             /\ cap'.global_cache = cap.global_cache]_vars

\* a capture has left out the room object, the local player and the local
\* player's component, and kept a list with a hole
C25_Witness ==
    /\ cap.last = "captured"
    /\ cap.clientid = 1
    /\ DOMAIN cap.objects = {RoomId, 1, 2}
    /\ DOMAIN cap.players_cache = {2}
    /\ DOMAIN cap.netobjects = {1, 2}
    /\ cap.netobjects[1].ownerid = 1 /\ cap.netobjects[2].ownerid = RoomId
    /\ DOMAIN cap.components_cache = {2}
    /\ cap.global_cache = <<Hole, OldSession>>

WarmupOrder == <<"is_connect", "is_identify", "is_join", "is_spawns",
                 "is_announce", "is_disconnect">>
\* chain p moves on to the await at position k of the warmup
Reaches(p, k) == pc'[p] = WarmupOrder[k] /\ pc[p] # WarmupOrder[k]
ReturnsOutcome(p) == Len(outLog') = Len(outLog) + 1 /\ pc'[p] = "dj_spawned" /\ pc[p] # "dj_spawned"

\* the warmup reaches each await only from the one before it, having
\* called what the order says: identify after the connect, the join after
\* identify, the self-spawn after the join, the announcement after the
\* spawns and settings with exactly one SettingsUpdate emitted, the capture
\* and the disconnect after the announcement
WarmupInOrder(p) ==
    /\ Reaches(p, 1) => Issues(issued', {"connect"})
    /\ Reaches(p, 2) => pc[p] = "is_connect" /\ connected' /\ issued' = <<"identify">>
    /\ Reaches(p, 3) => pc[p] = "is_identify" /\ identified' /\ issued' = <<"join">>
    /\ Reaches(p, 4) => pc[p] = "is_join" /\ joined' /\ issued' = <<"spawn">>
    /\ Reaches(p, 5) => /\ pc[p] = "is_spawns"
                        /\ NumSettingsUpdate(emitted') = 1
                        /\ issued' = <<"announce">>
    /\ Reaches(p, 6) => pc[p] = "is_announce" /\ cached' /\ issued' = <<"disconnect">>

\* no outcome but None follows a capture: the warmup captures only in the
\* step that calls the disconnect, and from there it only returns None
CaptureOnlyBeforeNone(p) ==
    /\ (ReturnsOutcome(p) /\ Last(outLog') # "None") => pc[p] # "is_disconnect"
    /\ (pc[p] \in {"is_connect", "is_identify", "is_join", "is_spawns", "is_announce"}
        /\ pc'[p] # pc[p] /\ pc'[p] # "is_disconnect")
       => cached' = cached

\* C26 as stated: a warmup that returns None has gone through its awaits
\* in order, and at its return a snapshot exists and the client is
\* disconnected; a warmup that returns another outcome has captured none.
C26_WarmupOrderAndSnapshot ==
    [][\A p \in Joiners :
          /\ WarmupInOrder(p)
          /\ CaptureOnlyBeforeNone(p)
          /\ (ReturnsOutcome(p) /\ Last(outLog') = "None")
             => (cached' /\ ~connected' /\ pc[p] = "is_disconnect")]_vars

\* C26 amended: as stated, for a warmup that still has its client when the
\* announcement is over; when destroy() has taken the client away during
\* the last delay, the warmup returns None from there without capturing
\* and without a disconnect of its own, on a destroyed backend.
C26_WarmupOrderAndSnapshotUnlessDestroyed ==
    [][\A p \in Joiners :
          /\ WarmupInOrder(p)
          /\ CaptureOnlyBeforeNone(p)
          /\ (ReturnsOutcome(p) /\ Last(outLog') = "None")
             => \/ cached' /\ ~connected' /\ pc[p] = "is_disconnect"
                \/ /\ pc[p] = "is_announce" /\ ~client /\ destroyed
                   /\ cached' = cached /\ issued' = <<>>]_vars

\* a warmup has returned None after its disconnect, with a snapshot
C26_Witness ==
    /\ got = [proc |-> "init", at |-> "is_disconnect", outcome |-> "ok"]
    /\ outLog = <<"None">>
    /\ cached /\ ~connected /\ client /\ ~destroyed
    /\ count.settings = 1

WarmupAwaits == {"is_connect", "is_identify", "is_join", "is_spawns",
                 "is_announce", "is_disconnect"}

RECURSIVE Unanswered(_)
Unanswered(log) ==
    IF log = <<>> \/ Last(log) = Spawned("MeetingHud") THEN 0
    ELSE Unanswered(SubSeq(log, 1, Len(log) - 1))
         + (IF Last(log) = Notified(TRUE) THEN 1 ELSE 0)

\* C28: when the meeting object spawns, GameStateChange(Meeting) is
\* emitted once for each meeting notification received since the meeting
\* object last spawned, whatever has spawned in between; no other step
\* emits it.
C28_MeetingOnNextMeetingHud ==
    [][meet'.log # meet.log
       => IF Last(meet'.log) = Spawned("MeetingHud")
          THEN meet'.out = meet.out \o [i \in 1..Unanswered(meet.log) |-> GameStateEvent("Meeting")]
          ELSE meet'.out = meet.out]_vars

HasSpawned(log, component) == \E i \in 1..Len(log) : log[i] = component

\* C29: awaitSpawns resolves at most once; the step in which it resolves
\* true is a spawn after which the GameData component and a PlayerControl
\* of every participant known at that moment have spawned since the call,
\* and that step removes the spawn listener, so no later spawn reaches it.
C29_ResolvesWhenAllSpawned ==
    /\ [](Len(aw.resolved) <= 1)
    /\ [](aw.at = "resolved" => ~aw.listener)
    /\ [][aw'.resolved # aw.resolved /\ Last(aw'.resolved)
          => /\ Len(aw'.log) = Len(aw.log) + 1
             /\ HasSpawned(aw'.log, Component("GameData", RoomId))
             /\ \A id \in aw'.players : HasSpawned(aw'.log, Component("PlayerControl", id))
             /\ ~aw'.listener]_vars

\* awaitSpawns has resolved true once the PlayerControl of the only
\* participant and the GameData had spawned, and the PlayerControl that
\* spawned afterwards has not reached it
C29_Witness ==
    /\ aw.at = "resolved"
    /\ aw.resolved = <<TRUE>>
    /\ aw.players = {1}
    /\ aw.log = <<Component("PlayerControl", 1), Component("GameData", RoomId),
                  Component("PlayerControl", 2)>>
    /\ aw.playersSpawned = <<1>>
    /\ ~aw.listener

\* C30: every identification sent to an endpoint carries a token that was
\* acquired for that endpoint.
C30_TokenOfTheEndpoint ==
    \A k \in 1..Len(idt.log) : idt.log[k].tokenFor = idt.log[k].endpoint

\* C32: once destroy() has completed and the destroyed flag is set, no
\* step emits a domain event: not a doJoin resumed from an await, and not
\* the continuation of a handler.
C32_SilentAfterDestroy ==
    [][destroyed => emitted' = <<>>]_vars

\* the last GameStateChange emitted, if any, is Lobby
RECURSIVE InLobby(_)
InLobby(out) ==
    IF out = <<>> THEN FALSE
    ELSE IF Last(out).type = "GameStateChange" THEN Last(out) = GameStateEvent("Lobby")
    ELSE InLobby(SubSeq(out, 1, Len(out) - 1))

\* C31: once GameStateChange(Lobby) is emitted, the next GameStateChange
\* emitted is the one of a game-start notification: the delay of a
\* voting-complete notification that ends afterwards emits nothing.
C31_NoGameAfterLobby ==
    [][(InLobby(gs.out) /\ gs'.out # gs.out
        /\ Last(gs'.out) = GameStateEvent("Game"))
       => gs'.last = "game.start"]_vars

\* chain p is inside a doJoin execution, suspended at one of its awaits
InDoJoin(p) == pc[p] \in WarmupAwaits \cup {"rj_connect", "rj_identify", "rj_join"}

\* C33: the rejoin of the game.end handler and the rejoin of the
\* player.sethost handler are never both inside doJoin.
C33_OneRejoinAtATime ==
    ~(InDoJoin("end") /\ InDoJoin("host"))

\* C34: a joinGame whose warmup attempt was abandoned as TimedOut calls
\* no operation of the client afterwards.
C34_AbandonedJoinIsInert ==
    \A k \in 1..Len(ab.acts) : ab.acts[k].who = "first" => ~ab.acts[k].late

\* chain p is suspended at an await inside doJoin
Suspended(p) == pc[p] \in WarmupAwaits \cup {"dj_spawned", "dj_retry_disc",
                                            "rj_connect", "rj_identify", "rj_join"}
\* the step calls connect for a doJoin invocation, not for a Redirect
EntryConnect ==
    /\ issued' # <<>> /\ Last(issued') = "connect"
    /\ pc'["init"] \in {"is_connect", "rj_connect"}

C36_JoinGameEnds ==
    (rd.at # "idle") ~> (rd.at \in {"returned", "thrown"})

\* C37: whenever doJoin has returned false on a backend that is not
\* destroyed, an Error with fatal=true has been emitted.
C37_FalseIsReported ==
    \A p \in Joiners :
        (pc[p] = "dj_return" /\ ret[p] # 337 /\ ~destroyed) => count.fatal > 0

ValidIndex(i, endpoints) == 0 <= i /\ i < Len(endpoints)

\* C38: the step in which initialize has resolved the region, and every
\* step that changes the endpoint index, leaves an index of the endpoint
\* set, whatever the lookup has found.
C38_ServerIndexValid ==
    [][/\ (got'.proc = "init" /\ got'.at = "in_resolve" /\ got'.outcome = "ok")
          => ValidIndex(server', master')
       /\ server' # server => ValidIndex(server', master')]_vars

Rejects(c) == dns.calls[c].state = "looking" /\ dns'.calls[c].state = "rejected"

\* C39: the step in which a lookup of a resolveMMDNS call fails leaves
\* every region's entry of the cache as it was, whatever the earlier
\* lookups of the call have found, and the failed call takes no further
\* step.
C39_FailedCallLeavesCache ==
    [][\A c \in Resolvers :
          /\ Rejects(c) => dns'.cache = dns.cache
          /\ dns.calls[c].state = "rejected" => dns'.calls[c] = dns.calls[c]]_vars

\* the second lookup of a call has failed after the first had found an
\* endpoint, and the region's entry is still empty
C39_Witness ==
    /\ dns.calls[1].state = "rejected"
    /\ dns.calls[1].name = 2
    /\ dns.calls[1].servers # <<>>
    /\ dns.cache[dns.calls[1].region] = <<>>

SetVentOfReceived(u, v) ==
    /\ vt'.delivered = vt.delivered + 1
    /\ vt'.event = [type |-> "setventof", uuid |-> u, ventid |-> v]
Knows(st, u) == \E i \in 1..Len(st.clients) : st.clients[i].uuid = u

\* C40: the step in which the store receives SetVentOf for uuid u with vent
\* id v sets the vent id of the local player to v when u is the local uuid
\* and leaves the remote clients as they are; otherwise it leaves the local
\* player as it is, sets the vent id of the remote client with uuid u to v
\* and leaves every other remote client as it is; with no such client
\* nothing changes.
C40_SetVentOfSetsTheEntity ==
    [][\A u \in StoreUuids, v \in VentIds :
          SetVentOfReceived(u, v)
          => IF u = vt.me.uuid
             THEN /\ vt'.me = [vt.me EXCEPT !.ventid = Number(v)]
                  /\ vt'.clients = vt.clients
             ELSE /\ vt'.me = vt.me
                  /\ Len(vt'.clients) = Len(vt.clients)
                  /\ \A i \in 1..Len(vt.clients) :
                        /\ vt'.clients[i].uuid = vt.clients[i].uuid
                        /\ vt.clients[i].uuid # u => vt'.clients[i] = vt.clients[i]
                  /\ Knows(vt, u)
                     => \E i \in 1..Len(vt.clients) :
                           /\ vt.clients[i].uuid = u
                           /\ vt'.clients[i].ventid = Number(v)]_vars

====
